---- MODULE Spec2Model ----
(***************************************************************************)
(* Model of collect_kpop_trade_v2.py: the Reddit OAuth client (token       *)
(* cache, cursor pagination, subreddit search), the SerpAPI client and the *)
(* KpopTradeCollector pipeline (merge, de-duplicate, filter, sort, cut).   *)
(*                                                                         *)
(* Conventions.  A Python str is a sequence of characters, each character  *)
(* a one-element string; a Hangul syllable is written by its code point    *)
(* ("U+D310").  Optional values are <<>> (None) or <<v>>.  A key of a JSON *)
(* object is Missing, Null (JSON null) or Val(v).  Times are seconds since *)
(* the epoch, as datetime.fromtimestamp() and datetime.now() give them.    *)
(***************************************************************************)
EXTENDS Integers, Sequences, FiniteSets, TLC

None == <<>>

Some(v) == <<v>>

Missing == [tag |-> "missing"]

Null == [tag |-> "null"]

Val(v) == [tag |-> "val", val |-> v]

\* dict.get(key, default): the default only replaces an absent key; a key
\* that is present with a JSON null yields None.
dict_get(field, default) ==
    IF field.tag = "missing" THEN Val(default) ELSE field

(***************************************************************************)
(* str methods used by the program.                                        *)
(***************************************************************************)
UpperChars ==
    << "A", "B", "C", "D", "E", "F", "G", "H", "I", "J", "K", "L", "M",
       "N", "O", "P", "Q", "R", "S", "T", "U", "V", "W", "X", "Y", "Z" >>

LowerChars ==
    << "a", "b", "c", "d", "e", "f", "g", "h", "i", "j", "k", "l", "m",
       "n", "o", "p", "q", "r", "s", "t", "u", "v", "w", "x", "y", "z" >>

lower_char(c) ==
    IF \E i \in DOMAIN UpperChars : UpperChars[i] = c
    THEN LowerChars[CHOOSE i \in DOMAIN UpperChars : UpperChars[i] = c]
    ELSE c

upper_char(c) ==
    IF \E i \in DOMAIN LowerChars : LowerChars[i] = c
    THEN UpperChars[CHOOSE i \in DOMAIN LowerChars : LowerChars[i] = c]
    ELSE c

\* str.lower()
lower(s) == [i \in 1..Len(s) |-> lower_char(s[i])]

\* str.upper()
upper(s) == [i \in 1..Len(s) |-> upper_char(s[i])]

\* sub in s
contains(s, sub) ==
    \E i \in 0..(Len(s) - Len(sub)) : SubSeq(s, i + 1, i + Len(sub)) = sub

\* s.endswith(suffix)
endswith(s, suffix) ==
    /\ Len(suffix) <= Len(s)
    /\ SubSeq(s, Len(s) - Len(suffix) + 1, Len(s)) = suffix

\* A variant of rstrip_slash: s[:-1] if s.endswith("/") else s.
strip_one_slash(s) ==
    IF Len(s) > 0 /\ s[Len(s)] = "/" THEN SubSeq(s, 1, Len(s) - 1) ELSE s

\* s.rstrip("/"): every trailing "/" is removed, not only one.
RECURSIVE rstrip_slash(_)
rstrip_slash(s) ==
    IF Len(s) > 0 /\ s[Len(s)] = "/"
    THEN rstrip_slash(SubSeq(s, 1, Len(s) - 1))
    ELSE s

RECURSIVE lstrip_space(_)
lstrip_space(s) ==
    IF Len(s) > 0 /\ s[1] = " " THEN lstrip_space(Tail(s)) ELSE s

RECURSIVE rstrip_space(_)
rstrip_space(s) ==
    IF Len(s) > 0 /\ s[Len(s)] = " "
    THEN rstrip_space(SubSeq(s, 1, Len(s) - 1))
    ELSE s

\* s.strip()
strip(s) == lstrip_space(rstrip_space(s))

(***************************************************************************)
(* parse_title_tags and its tables.                                        *)
(***************************************************************************)
\* A variant of transaction_types with the compound tokens in front.
compound_first_types ==
    << <<"W", "T", "T", "/", "W", "T", "S">>,
       <<"W", "T", "S", "/", "W", "T", "T">>,
       <<"W", "T", "S">>,
       <<"W", "T", "B">>,
       <<"W", "T", "T">>,
       <<"I", "S", "O">> >>

transaction_types ==
    << <<"W", "T", "S">>,
       <<"W", "T", "B">>,
       <<"W", "T", "T">>,
       <<"W", "T", "T", "/", "W", "T", "S">>,
       <<"W", "T", "S", "/", "W", "T", "T">>,
       <<"I", "S", "O">> >>

country_mapping ==
    << << <<"U", "S", "A">>, <<"U", "S", "A">> >>,
       << <<"U", "S">>, <<"U", "S", "A">> >>,
       << <<"U", "K">>, <<"U", "K">> >>,
       << <<"E", "U">>, <<"E", "U">> >>,
       << <<"W", "W">>, <<"W", "W">> >>,
       << <<"C", "A", "N">>, <<"C", "A", "N">> >>,
       << <<"C", "A">>, <<"C", "A", "N">> >>,
       << <<"A", "U", "S">>, <<"A", "U", "S">> >>,
       << <<"A", "U">>, <<"A", "U", "S">> >>,
       << <<"K", "R">>, <<"K", "R">> >>,
       << <<"J", "P">>, <<"J", "P">> >>,
       << <<"S", "G">>, <<"S", "G">> >>,
       << <<"P", "H">>, <<"P", "H">> >>,
       << <<"M", "Y">>, <<"M", "Y">> >>,
       << <<"T", "H">>, <<"T", "H">> >>,
       << <<"I", "D">>, <<"I", "D">> >>,
       << <<"V", "N">>, <<"V", "N">> >>,
       << <<"T", "W">>, <<"T", "W">> >>,
       << <<"H", "K">>, <<"H", "K">> >>,
       << <<"N", "Z">>, <<"N", "Z">> >>,
       << <<"D", "E">>, <<"D", "E">> >>,
       << <<"F", "R">>, <<"F", "R">> >>,
       << <<"N", "L">>, <<"N", "L">> >>,
       << <<"I", "T">>, <<"I", "T">> >>,
       << <<"E", "S">>, <<"E", "S">> >>,
       << <<"B", "R">>, <<"B", "R">> >>,
       << <<"M", "X">>, <<"M", "X">> >>,
       << <<"I", "N">>, <<"I", "N">> >>,
       << <<"C", "A", "N", "A", "D", "A">>, <<"C", "A", "N">> >>,
       << <<"A", "U", "S", "T", "R", "A", "L", "I", "A">>, <<"A", "U", "S">> >>,
       << <<"K", "O", "R", "E", "A">>, <<"K", "R">> >>,
       << <<"J", "A", "P", "A", "N">>, <<"J", "P">> >>,
       << <<"S", "I", "N", "G", "A", "P", "O", "R", "E">>, <<"S", "G">> >>,
       << <<"P", "H", "I", "L", "I", "P", "P", "I", "N", "E", "S">>, <<"P", "H">> >>,
       << <<"M", "A", "L", "A", "Y", "S", "I", "A">>, <<"M", "Y">> >>,
       << <<"T", "H", "A", "I", "L", "A", "N", "D">>, <<"T", "H">> >>,
       << <<"I", "N", "D", "O", "N", "E", "S", "I", "A">>, <<"I", "D">> >>,
       << <<"V", "I", "E", "T", "N", "A", "M">>, <<"V", "N">> >>,
       << <<"T", "A", "I", "W", "A", "N">>, <<"T", "W">> >>,
       << <<"G", "E", "R", "M", "A", "N", "Y">>, <<"D", "E">> >>,
       << <<"F", "R", "A", "N", "C", "E">>, <<"F", "R">> >>,
       << <<"N", "E", "T", "H", "E", "R", "L", "A", "N", "D", "S">>, <<"N", "L">> >>,
       << <<"I", "T", "A", "L", "Y">>, <<"I", "T">> >>,
       << <<"S", "P", "A", "I", "N">>, <<"E", "S">> >>,
       << <<"B", "R", "A", "Z", "I", "L">>, <<"B", "R">> >>,
       << <<"M", "E", "X", "I", "C", "O">>, <<"M", "X">> >>,
       << <<"I", "N", "D", "I", "A">>, <<"I", "N">> >> >>

\* A variant of first_transaction_type without the break: the last type of
\* the list that occurs in the title wins.
RECURSIVE last_transaction_type(_, _)
last_transaction_type(title, i) ==
    IF i > Len(transaction_types) THEN None
    ELSE LET later == last_transaction_type(title, i + 1)
         IN  IF later # None THEN later
             ELSE IF contains(lower(title), lower(transaction_types[i]))
             THEN Some(upper(transaction_types[i]))
             ELSE None

\* for tt in transaction_types: if tt.lower() in title.lower(): ... break
RECURSIVE first_transaction_type(_, _)
first_transaction_type(title, i) ==
    IF i > Len(transaction_types) THEN None
    ELSE IF contains(lower(title), lower(transaction_types[i]))
         THEN Some(upper(transaction_types[i]))
         ELSE first_transaction_type(title, i + 1)

\* re.findall(r'\[([^\]]+)\]', t), scanning from position i: a match starts
\* at a "[" whose next "]" lies at least one character further on, and the
\* scan resumes after that "]".
RECURSIVE bracket_matches(_, _)
bracket_matches(t, i) ==
    IF i > Len(t) THEN <<>>
    ELSE IF t[i] = "[" /\ \E j \in (i + 1)..Len(t) : t[j] = "]"
         THEN LET j == CHOOSE j \in (i + 1)..Len(t) :
                          /\ t[j] = "]"
                          /\ \A k \in (i + 1)..(j - 1) : t[k] # "]"
              IN  IF j > i + 1
                  THEN <<SubSeq(t, i + 1, j - 1)>> \o bracket_matches(t, j + 1)
                  ELSE bracket_matches(t, i + 1)
         ELSE bracket_matches(t, i + 1)

in_country_mapping(key) ==
    \E i \in DOMAIN country_mapping : country_mapping[i][1] = key

country_lookup(key) ==
    country_mapping[CHOOSE i \in DOMAIN country_mapping :
                        country_mapping[i][1] = key][2]

\* A variant of first_country without the break: the last bracket match
\* that is in the table wins.
RECURSIVE last_country(_, _)
last_country(matches, i) ==
    IF i > Len(matches) THEN None
    ELSE LET later == last_country(matches, i + 1)
         IN  IF later # None THEN later
             ELSE IF in_country_mapping(strip(matches[i]))
             THEN Some(country_lookup(strip(matches[i])))
             ELSE None

\* for match in bracket_matches: if match.strip() in country_mapping: ... break
RECURSIVE first_country(_, _)
first_country(matches, i) ==
    IF i > Len(matches) THEN None
    ELSE IF in_country_mapping(strip(matches[i]))
         THEN Some(country_lookup(strip(matches[i])))
         ELSE first_country(matches, i + 1)

parse_title_tags(title) ==
    [ transaction_type |-> first_transaction_type(title, 1),
      country |-> first_country(bracket_matches(upper(title), 1), 1) ]

(***************************************************************************)
(* TradePost and the three places that build one.  The model keeps the     *)
(* fields some step of the program reads or validates; author,             *)
(* author_flair, flair, subreddit (optional, written once and never read)  *)
(* and scraped_at are left out.  Each builder yields [raised |-> TRUE] when the Python code raises *)
(* (an AttributeError or TypeError on a None, or pydantic's                *)
(* ValidationError for a None in a field that is not Optional), and        *)
(* otherwise [raised |-> FALSE, ...].                                      *)
(***************************************************************************)
Raised == [raised |-> TRUE]

IMAGE_SUFFIXES ==
    << <<".", "j", "p", "g">>, <<".", "p", "n", "g">>, <<".", "g", "i", "f">>,
       <<".", "j", "p", "e", "g">>, <<".", "w", "e", "b", "p">> >>

\* datetime.fromtimestamp(post_data.get("created_utc", 0))
created_at_of(post_data) ==
    LET created_utc == dict_get(post_data.created_utc, 0)
    IN  IF created_utc.tag = "null"
        THEN Raised
        ELSE [raised |-> FALSE, value |-> created_utc.val]

\* The image URL of a post.  media_metadata and preview, when given, are
\* the resolved URLs (entry["s"]["u"], image["source"]["url"]) in upstream
\* order.
first_image_url_of(post_data) ==
    LET is_gallery == dict_get(post_data.is_gallery, FALSE)
        url == dict_get(post_data.url, <<>>)
    IN  IF /\ is_gallery.tag = "val" /\ is_gallery.val
           /\ post_data.gallery_data.tag # "missing"
        THEN LET media_metadata == dict_get(post_data.media_metadata, <<>>)
             IN  IF media_metadata.tag = "val" /\ media_metadata.val # <<>>
                 THEN [raised |-> FALSE, value |-> Some(media_metadata.val[1])]
                 ELSE [raised |-> FALSE, value |-> None]
        ELSE IF url.tag = "null"
        THEN Raised
        ELSE IF \E i \in DOMAIN IMAGE_SUFFIXES : endswith(url.val, IMAGE_SUFFIXES[i])
        THEN [raised |-> FALSE, value |-> Some(url.val)]
        ELSE IF post_data.preview.tag = "missing"
        THEN [raised |-> FALSE, value |-> None]
        ELSE IF post_data.preview.tag = "null"
        THEN Raised
        ELSE IF post_data.preview.val # <<>>
        THEN [raised |-> FALSE, value |-> Some(post_data.preview.val[1])]
        ELSE [raised |-> FALSE, value |-> None]

\* TradePost(**kw): pydantic rejects None for title, score, comment_count,
\* selftext, permalink and is_gallery; kw holds JSON values for these.
TradePost(kw) ==
    IF \/ kw.title.tag = "null"
       \/ kw.score.tag = "null"
       \/ kw.comment_count.tag = "null"
       \/ kw.selftext.tag = "null"
       \/ kw.permalink.tag = "null"
       \/ kw.is_gallery.tag = "null"
    THEN Raised
    ELSE [ raised |-> FALSE,
           post |-> [ title |-> kw.title.val,
                      transaction_type |-> kw.transaction_type,
                      country |-> kw.country,
                      score |-> kw.score.val,
                      comment_count |-> kw.comment_count.val,
                      selftext |-> kw.selftext.val,
                      created_timestamp |-> kw.created_timestamp,
                      permalink |-> kw.permalink.val,
                      first_image_url |-> kw.first_image_url,
                      is_gallery |-> kw.is_gallery.val,
                      source |-> kw.source ] ]

\* f"https://reddit.com{post_data.get('permalink', '')}": None is formatted
\* as the text "None".
reddit_permalink(post_data) ==
    LET permalink == dict_get(post_data.permalink, <<>>)
    IN  <<"https://reddit.com">> \o
        (IF permalink.tag = "null" THEN <<"N", "o", "n", "e">> ELSE permalink.val)

\* One child of a listing or search response, after its created_at is known.
\* parse_title_tags(None) raises on title.lower().
trade_post_of(post_data, created_at) ==
    LET title == dict_get(post_data.title, <<>>)
        image == first_image_url_of(post_data)
    IN  IF title.tag = "null" \/ image.raised
        THEN Raised
        ELSE LET tags == parse_title_tags(title.val)
             IN  TradePost([ title |-> title,
                             transaction_type |-> tags.transaction_type,
                             country |-> tags.country,
                             score |-> dict_get(post_data.score, 0),
                             comment_count |-> dict_get(post_data.num_comments, 0),
                             selftext |-> dict_get(post_data.selftext, <<>>),
                             created_timestamp |-> Some(created_at),
                             permalink |-> Val(reddit_permalink(post_data)),
                             first_image_url |-> image.value,
                             is_gallery |-> dict_get(post_data.is_gallery, FALSE),
                             source |-> "reddit_api" ])

\* One organic result of the search engine.
serp_post_of(item) ==
    LET title == dict_get(item.title, <<>>)
    IN  IF title.tag = "null"
        THEN Raised
        ELSE LET tags == parse_title_tags(title.val)
             IN  TradePost([ title |-> title,
                             transaction_type |-> tags.transaction_type,
                             country |-> tags.country,
                             score |-> Val(0),
                             comment_count |-> Val(0),
                             selftext |-> dict_get(item.snippet, <<>>),
                             created_timestamp |-> None,
                             permalink |-> dict_get(item.link, <<>>),
                             first_image_url |-> None,
                             is_gallery |-> Val(FALSE),
                             source |-> "serpapi" ])

(***************************************************************************)
(* KpopTradeCollector: tables, predicates and the stages of collect().     *)
(***************************************************************************)
SUBREDDITS == << "kpopforsale", "kpopcollections", "kpoptrade", "adultkpopfans" >>

TRADE_KEYWORDS ==
    << <<"w", "t", "s">>,
       <<"w", "t", "b">>,
       <<"w", "t", "t">>,
       <<"t", "r", "a", "d", "e">>,
       <<"t", "r", "a", "d", "i", "n", "g">>,
       <<"s", "e", "l", "l", "i", "n", "g">>,
       <<"b", "u", "y", "i", "n", "g">>,
       <<"f", "o", "r", " ", "s", "a", "l", "e">>,
       <<"i", "s", "o">>,
       <<"U+C591", "U+B3C4">>,
       <<"U+D310", "U+B9E4">>,
       <<"U+AD6C", "U+D574">>,
       <<"U+C0BD", "U+B2C8", "U+B2E4">>,
       <<"U+D31D", "U+B2C8", "U+B2E4">>,
       <<"U+AD50", "U+D658">> >>

artist_aliases ==
    << << <<"s", "e", "v", "e", "n", "t", "e", "e", "n">>,
          << <<"s", "v", "t">>, <<"U+C138", "U+BE10", "U+D2F4">>, <<"s", "e", "b", "o", "n", "g">> >> >>,
       << <<"b", "t", "s">>,
          << <<"U+BC29", "U+D0C4", "U+C18C", "U+B144", "U+B2E8">>, <<"b", "a", "n", "g", "t", "a", "n">> >> >>,
       << <<"t", "w", "i", "c", "e">>,
          << <<"U+D2B8", "U+C640", "U+C774", "U+C2A4">> >> >>,
       << <<"b", "l", "a", "c", "k", "p", "i", "n", "k">>,
          << <<"U+BE14", "U+B799", "U+D551", "U+D06C">>, <<"U+BE14", "U+D551">> >> >>,
       << <<"s", "t", "r", "a", "y", " ", "k", "i", "d", "s">>,
          << <<"s", "k", "z">>, <<"U+C2A4", "U+D2B8", "U+B808", "U+C774", "U+D0A4", "U+C988">>, <<"U+C2A4", "U+D0A4", "U+C988">> >> >>,
       << <<"n", "e", "w", "j", "e", "a", "n", "s">>,
          << <<"U+B274", "U+C9C4", "U+C2A4">>, <<"n", "j">> >> >>,
       << <<"a", "e", "s", "p", "a">>,
          << <<"U+C5D0", "U+C2A4", "U+D30C">> >> >>,
       << <<"n", "c", "t">>,
          << <<"U+C5D4", "U+C2DC", "U+D2F0">> >> >>,
       << <<"e", "x", "o">>,
          << <<"U+C5D1", "U+C18C">> >> >>,
       << <<"r", "e", "d", " ", "v", "e", "l", "v", "e", "t">>,
          << <<"U+B808", "U+B4DC", "U+BCA8", "U+BCB3">>, <<"U+B808", "U+BCA8">> >> >>,
       << <<"i", "t", "z", "y">>,
          << <<"U+C788", "U+C9C0">> >> >>,
       << <<"t", "x", "t">>,
          << <<"U+D22C", "U+BAA8", "U+B85C", "U+C6B0", "U+BC14", "U+C774", "U+D22C", "U+AC8C", "U+B354">>, <<"t", "o", "m", "o", "r", "r", "o", "w", " ", "x", " ", "t", "o", "g", "e", "t", "h", "e", "r">> >> >>,
       << <<"e", "n", "h", "y", "p", "e", "n">>,
          << <<"U+C5D4", "U+D558", "U+C774", "U+D508">> >> >>,
       << <<"i", "v", "e">>,
          << <<"U+C544", "U+C774", "U+BE0C">> >> >>,
       << <<"l", "e", " ", "s", "s", "e", "r", "a", "f", "i", "m">>,
          << <<"U+B974", "U+C138", "U+B77C", "U+D54C">> >> >> >>

\* A variant of combined_text: the text is not lower-cased.
combined_text_cased(post) == post.title \o <<" ">> \o post.selftext

\* combined = (post.title + " " + post.selftext).lower()
combined_text(post) == lower(post.title \o <<" ">> \o post.selftext)

is_trade_post(post) ==
    IF post.transaction_type # None
    THEN TRUE
    ELSE \E i \in DOMAIN TRADE_KEYWORDS :
             contains(combined_text(post), TRADE_KEYWORDS[i])

\* A variant of artist_variants that never looks in the alias table.
artist_variants_unaliased(artist) == <<lower(artist)>>

\* artist_variants: the lower-cased artist, then its aliases if the table
\* has an entry for it.
artist_variants(artist) ==
    LET artist_lower == lower(artist)
    IN  IF \E i \in DOMAIN artist_aliases : artist_aliases[i][1] = artist_lower
        THEN <<artist_lower>> \o
             artist_aliases[CHOOSE i \in DOMAIN artist_aliases :
                                artist_aliases[i][1] = artist_lower][2]
        ELSE <<artist_lower>>

contains_artist(post, artist) ==
    \E i \in DOMAIN artist_variants(artist) :
        contains(combined_text(post), artist_variants(artist)[i])

\* The de-duplication loop of collect(): seen_urls holds permalinks with
\* their trailing "/" stripped; a post is kept when its stripped permalink
\* is new.
RECURSIVE dedup_loop(_, _, _, _)
dedup_loop(posts, i, seen_urls, unique_posts) ==
    IF i > Len(posts) THEN unique_posts
    ELSE LET normalized_url == rstrip_slash(posts[i].permalink)
         IN  IF normalized_url \notin seen_urls
             THEN dedup_loop(posts, i + 1, seen_urls \cup {normalized_url},
                             Append(unique_posts, posts[i]))
             ELSE dedup_loop(posts, i + 1, seen_urls, unique_posts)

\* A variant of deduplicate that drops a post only when the post before it
\* has its URL.
RECURSIVE neighbours_loop(_, _, _)
neighbours_loop(posts, i, unique_posts) ==
    IF i > Len(posts) THEN unique_posts
    ELSE IF i > 1 /\ rstrip_slash(posts[i].permalink) = rstrip_slash(posts[i - 1].permalink)
    THEN neighbours_loop(posts, i + 1, unique_posts)
    ELSE neighbours_loop(posts, i + 1, Append(unique_posts, posts[i]))

deduplicate_neighbours(posts) == neighbours_loop(posts, 1, <<>>)

deduplicate(posts) == dedup_loop(posts, 1, {}, <<>>)

\* [p for p in posts if pred(p)]
RECURSIVE filter_artist(_, _)
filter_artist(posts, artist) ==
    IF posts = <<>> THEN <<>>
    ELSE (IF contains_artist(Head(posts), artist) THEN <<Head(posts)>> ELSE <<>>)
         \o filter_artist(Tail(posts), artist)

RECURSIVE filter_trade(_)
filter_trade(posts) ==
    IF posts = <<>> THEN <<>>
    ELSE (IF is_trade_post(Head(posts)) THEN <<Head(posts)>> ELSE <<>>)
         \o filter_trade(Tail(posts))

\* key=lambda p: p.created_timestamp or datetime.min.  datetime.min, the
\* least datetime (year 1, below the integers of the model), is written
\* None; no created_utc of the model converts to it.
sort_key(p) == p.created_timestamp

\* A variant of key_ge: a <= b, the order of a sort without reverse=True.
key_le(a, b) == a = None \/ (b # None /\ b[1] >= a[1])

\* a >= b on sort keys
key_ge(a, b) == b = None \/ (a # None /\ a[1] >= b[1])

\* list.sort(key=..., reverse=True) is stable: posts with equal keys keep
\* their order.  insert_desc puts p after every post whose key is >= its own.
RECURSIVE insert_desc(_, _)
insert_desc(sorted, p) ==
    IF sorted = <<>> THEN <<p>>
    ELSE IF key_ge(sort_key(Head(sorted)), sort_key(p))
         THEN <<Head(sorted)>> \o insert_desc(Tail(sorted), p)
         ELSE <<p>> \o sorted

RECURSIVE sort_loop(_, _, _)
sort_loop(posts, i, sorted) ==
    IF i > Len(posts) THEN sorted
    ELSE sort_loop(posts, i + 1, insert_desc(sorted, posts[i]))

sort_newest_first(posts) == sort_loop(posts, 1, <<>>)

\* posts[:n], with Python's meaning of a negative n.
slice_to(posts, n) ==
    IF n >= 0
    THEN SubSeq(posts, 1, IF n < Len(posts) THEN n ELSE Len(posts))
    ELSE SubSeq(posts, 1, IF Len(posts) + n > 0 THEN Len(posts) + n ELSE 0)

\* if len(trade_posts) > limit: trade_posts = trade_posts[:limit]
truncate(posts, lim) ==
    IF Len(posts) > lim THEN slice_to(posts, lim) ELSE posts

\* A variant of get_search_queries whose queries leave the artist out.
generic_search_queries(a) ==
    [ reddit_api |->
        << <<"p", "h", "o", "t", "o", "c", "a", "r", "d">>, <<"p", "c">>, <<"W", "T", "S">>,
           <<"W", "T", "B">>, <<"W", "T", "T">>, <<"t", "r", "a", "d", "e">>,
           <<"s", "e", "l", "l", "i", "n", "g">> >>,
      serpapi |->
        << <<"W", "T", "S">>, <<"W", "T", "B">>, <<"W", "T", "T">>,
           <<"U+D3EC", "U+D1A0", "U+CE74", "U+B4DC">>,
           <<"k", "p", "o", "p", "f", "o", "r", "s", "a", "l", "e">> >> ]

\* get_search_queries(artist)
get_search_queries(a) ==
    [ reddit_api |->
        << a \o <<" ", "p", "h", "o", "t", "o", "c", "a", "r", "d">>,
           a \o <<" ", "p", "c">>,
           a \o <<" ", "W", "T", "S">>,
           a \o <<" ", "W", "T", "B">>,
           a \o <<" ", "W", "T", "T">>,
           a \o <<" ", "t", "r", "a", "d", "e">>,
           a \o <<" ", "s", "e", "l", "l", "i", "n", "g">> >>,
      serpapi |->
        << <<"W", "T", "S", " ">> \o a \o <<" ", "p", "h", "o", "t", "o", "c", "a", "r", "d">>,
           <<"W", "T", "B", " ">> \o a \o <<" ", "p", "h", "o", "t", "o", "c", "a", "r", "d">>,
           <<"W", "T", "T", " ">> \o a \o <<" ", "p", "h", "o", "t", "o", "c", "a", "r", "d">>,
           a \o <<" ", "U+D3EC", "U+D1A0", "U+CE74", "U+B4DC", " ", "U+C591", "U+B3C4">>,
           <<"k", "p", "o", "p", "f", "o", "r", "s", "a", "l", "e", " ">> \o a >> ]

\* timedelta(days=n) in seconds
days(n) == n * 86400

(***************************************************************************)
(* Bounds of the model and the inputs drawn within them.                   *)
(***************************************************************************)
\* datetime.now() when the collector is constructed
StartTime == 1800000000

\* largest limit and max_pages a caller passes
MaxLimit == 2

MaxPagesArg == 2

\* most children in one listing page
MaxPageLen == 2

\* The largest limit and max_pages a whole collect() run is given.
RunMaxLimit == 1

RunMaxPages == 1

\* seconds the clock may advance while the session is checked alone
MaxElapsed == 3

\* records handed to the de-duplication stage when it is checked alone
MaxPosts == 3

\* most pieces a title is put together from
MaxSegments == 2

RECURSIVE SeqsUpTo(_, _)
SeqsUpTo(S, n) ==
    IF n = 0 THEN {<<>>}
    ELSE LET shorter == SeqsUpTo(S, n - 1)
         IN  shorter \cup {Append(s, x) : s \in {t \in shorter : Len(t) = n - 1}, x \in S}

BTS == <<"B", "T", "S">>

Artists == {None, Some(BTS)}

Sources == {"both", "reddit", "serpapi"}

MonthsArgs == {12}

\* A child's "data" object; keys not named are absent.
post_data(title, selftext, created_utc, permalink) ==
    [ title |-> title, selftext |-> selftext, created_utc |-> created_utc,
      permalink |-> permalink, score |-> Missing, num_comments |-> Missing,
      url |-> Missing, is_gallery |-> Missing, gallery_data |-> Missing,
      media_metadata |-> Missing, preview |-> Missing ]

TitleSelling == <<"[", "W", "T", "S", "]", " ", "b", "t", "s">>

TitleChat == <<"h", "i">>

LinkA == <<"/", "r", "/", "a", "/">>

LinkB == <<"/", "r", "/", "b">>

PostRecent ==
    post_data(Val(TitleSelling), Val(<<>>), Val(StartTime - days(1)), Val(LinkA))

PostEarlier ==
    post_data(Val(TitleChat), Val(<<>>), Val(StartTime - days(2)), Val(LinkB))

PostMid ==
    post_data(Val(TitleChat), Val(<<>>), Val(StartTime - days(200)), Val(LinkB))

PostOld ==
    post_data(Val(TitleSelling), Val(<<>>), Val(StartTime - days(400)), Val(LinkB))

PostBare == post_data(Missing, Missing, Missing, Missing)

PostNullCreated ==
    post_data(Val(TitleSelling), Val(<<>>), Null, Val(LinkA))

\* Children of a listing page when one get_posts_paginated call is checked.
ListingPool == {PostRecent, PostEarlier, PostOld, PostBare, PostNullCreated}

\* Listing pages when a whole collect() run is checked.
RunListingPages ==
    { <<>>, <<PostRecent>>, <<PostRecent, PostRecent>>, <<PostRecent, PostOld>>,
      <<PostNullCreated>> }

\* Children of a feed-search answer, and organic results of a search-engine
\* answer, when a whole collect() run is checked.
RunSearchPages == { <<>>, <<PostRecent>>, <<PostMid, PostRecent>>, <<PostNullCreated>> }

ItemGood ==
    [ title |-> Val(TitleSelling), snippet |-> Missing,
      link |-> Val(<<"https://www.reddit.com">> \o LinkA) ]

ItemNullLink == [ title |-> Val(TitleSelling), snippet |-> Missing, link |-> Null ]

RunSerpPages == { <<>>, <<ItemGood>>, <<ItemNullLink>> }

Cursors == {"t3_a"}

\* What the auth endpoint can answer: a failure (a connection error or
\* timeout, or a non-2xx status or a body that is not JSON), or a JSON
\* object whose access_token is one of tokens.
token_responses(tokens) ==
    { [kind |-> k, access_token |-> Missing, expires_in |-> Missing] :
          k \in {"transient", "rejected"} } \cup
    { [kind |-> "ok", access_token |-> a, expires_in |-> e] :
          a \in tokens, e \in {Missing, Null, Val(61)} }

TokenResponses == token_responses({Missing, Val("tokA")})

SessionTokenResponses == token_responses({Missing, Null, Val("tokA"), Val("tokB")})

\* What a listing request can answer: a failure, or a page: its children
\* and its "after" key.
listing_responses(pages, cursors) ==
    { [kind |-> k, children |-> <<>>, after |-> Missing] :
          k \in {"transient", "rejected"} } \cup
    { [kind |-> "ok", children |-> c, after |-> a] :
          c \in pages, a \in {Missing} \cup {Val(x) : x \in cursors} }

ListingResponses == listing_responses(SeqsUpTo(ListingPool, MaxPageLen), Cursors)

RunListingResponses == listing_responses(RunListingPages, Cursors)

search_responses(pages) ==
    { [kind |-> k, children |-> <<>>] : k \in {"transient", "rejected"} } \cup
    { [kind |-> "ok", children |-> c] : c \in pages }

RunSearchResponses == search_responses(RunSearchPages)

\* The search engine answers a failure, a body with an "error" key, or
\* organic results.
serp_responses(pages) ==
    { [kind |-> k, organic_results |-> <<>>] :
          k \in {"transient", "rejected", "error_key"} } \cup
    { [kind |-> "ok", organic_results |-> c] : c \in pages }

RunSerpResponses == serp_responses(RunSerpPages)

(***************************************************************************)
(* State.                                                                  *)
(***************************************************************************)
VARIABLES
    reddit_available,   \* REDDIT_APP_ID and REDDIT_SECRET are both set
    serpapi_available,  \* SERPAPI_KEY is set
    now,                \* datetime.now()
    access_token,       \* RedditAPIClient.access_token
    token_expires_at,   \* RedditAPIClient.token_expires_at
    artist, limit, source, max_pages, months,   \* arguments of collect()
    pc,                 \* where the running collect() call stands
    min_date,           \* collect_from_reddit_api
    sub_i, query_i,     \* loop positions over SUBREDDITS and the queries
    posts, after, page, \* get_posts_paginated: all_posts, after, page
    bearer,             \* the token placed in the request headers
    attempt,            \* attempt number of the retrying wrapper
    all_posts, unique_posts, artist_posts, trade_posts,   \* collect()
    request,            \* the request on the wire, if any
    response,           \* the answer that is on its way
    page_requests,      \* listing requests sent by the current paginated call
    last_auth,          \* the last authenticate() call: state before, result
    warned              \* a failed request has been reported on this run

env == <<reddit_available, serpapi_available>>

session == <<access_token, token_expires_at>>

args == <<artist, limit, source, max_pages, months>>

paging == <<posts, after, page, bearer, page_requests>>

stages == <<unique_posts, artist_posts, trade_posts>>

wire == <<request, response>>

vars ==
    << reddit_available, serpapi_available, now, access_token, token_expires_at,
       artist, limit, source, max_pages, months, pc, min_date, sub_i,
       query_i, posts, after, page, bearer, attempt, all_posts, unique_posts,
       artist_posts, trade_posts, request, response, page_requests, last_auth,
       warned >>

NoRequest ==
    [ endpoint |-> "none", subreddit |-> "", query |-> <<>>, after |-> None,
      bearer |-> None ]

NoAuth ==
    [ called |-> FALSE, at |-> 0, token_before |-> None,
      expires_before |-> None, exchanged |-> FALSE, ok |-> FALSE ]

NoResponse == [ kind |-> "none" ]

\* A variant of authenticate without the cache test of lines 147-149: every
\* call of an available client exchanges credentials.
authenticate_always_exchanges(resp) ==
    LET unchanged(ok, exchanged) ==
            [ ok |-> ok, exchanged |-> exchanged,
              access_token |-> access_token,
              token_expires_at |-> token_expires_at ]
    IN  IF ~reddit_available THEN unchanged(FALSE, FALSE)
        ELSE IF resp.kind # "ok" THEN unchanged(FALSE, TRUE)
        ELSE IF resp.access_token.tag = "missing" THEN unchanged(FALSE, TRUE)
        ELSE LET token == IF resp.access_token.tag = "null"
                          THEN None ELSE Some(resp.access_token.val)
                 expires_in == dict_get(resp.expires_in, 3600)
             IN  IF expires_in.tag = "null"
                 THEN [ ok |-> FALSE, exchanged |-> TRUE,
                        access_token |-> token,
                        token_expires_at |-> token_expires_at ]
                 ELSE [ ok |-> TRUE, exchanged |-> TRUE,
                        access_token |-> token,
                        token_expires_at |-> Some(now + expires_in.val - 60) ]

\* A variant of authenticate that returns True from the handler of lines
\* 175-177.
authenticate_reporting_success(resp) ==
    LET unchanged(ok, exchanged) ==
            [ ok |-> ok, exchanged |-> exchanged,
              access_token |-> access_token,
              token_expires_at |-> token_expires_at ]
    IN  IF ~reddit_available THEN unchanged(FALSE, FALSE)
        ELSE IF /\ access_token # None
                /\ token_expires_at # None
                /\ now < token_expires_at[1]
        THEN unchanged(TRUE, FALSE)
        ELSE IF resp.kind # "ok" THEN unchanged(TRUE, TRUE)
        ELSE IF resp.access_token.tag = "missing" THEN unchanged(TRUE, TRUE)
        ELSE LET token == IF resp.access_token.tag = "null"
                          THEN None ELSE Some(resp.access_token.val)
                 expires_in == dict_get(resp.expires_in, 3600)
             IN  IF expires_in.tag = "null"
                 THEN [ ok |-> TRUE, exchanged |-> TRUE,
                        access_token |-> token,
                        token_expires_at |-> token_expires_at ]
                 ELSE [ ok |-> TRUE, exchanged |-> TRUE,
                        access_token |-> token,
                        token_expires_at |-> Some(now + expires_in.val - 60) ]

(***************************************************************************)
(* RedditAPIClient.authenticate, called now, when the auth endpoint would  *)
(* answer resp.  exchanged: requests.post was called.                      *)
(***************************************************************************)
authenticate(resp) ==
    LET unchanged(ok, exchanged) ==
            [ ok |-> ok, exchanged |-> exchanged,
              access_token |-> access_token,
              token_expires_at |-> token_expires_at ]
    IN  IF ~reddit_available THEN unchanged(FALSE, FALSE)
        ELSE IF /\ access_token # None
                /\ token_expires_at # None
                /\ now < token_expires_at[1]
        THEN unchanged(TRUE, FALSE)
        ELSE IF resp.kind # "ok" THEN unchanged(FALSE, TRUE)
        \* token_data["access_token"]: KeyError
        ELSE IF resp.access_token.tag = "missing" THEN unchanged(FALSE, TRUE)
        ELSE LET token == IF resp.access_token.tag = "null"
                          THEN None ELSE Some(resp.access_token.val)
                 expires_in == dict_get(resp.expires_in, 3600)
             IN  \* expires_in - 60 on a None: TypeError, after the token
                 \* has been stored
                 IF expires_in.tag = "null"
                 THEN [ ok |-> FALSE, exchanged |-> TRUE,
                        access_token |-> token,
                        token_expires_at |-> token_expires_at ]
                 ELSE [ ok |-> TRUE, exchanged |-> TRUE,
                        access_token |-> token,
                        token_expires_at |-> Some(now + expires_in.val - 60) ]

\* A variant of Request without lines 311-312: no "after" parameter.
request_without_cursor(endpoint, subreddit, query, cursor, token) ==
    [ endpoint |-> endpoint, subreddit |-> subreddit, query |-> query,
      after |-> None, bearer |-> token ]

\* A variant of next_after that takes any cursor for the cursor "t3_a".
first_cursor_after(resp) ==
    IF resp.after.tag = "val" THEN Some("t3_a") ELSE None

Request(endpoint, subreddit, query, cursor, token) ==
    [ endpoint |-> endpoint, subreddit |-> subreddit, query |-> query,
      after |-> cursor, bearer |-> token ]

\* The effect of one authenticate() call whose result is r.
AuthCall(r) ==
    /\ access_token' = r.access_token
    /\ token_expires_at' = r.token_expires_at
    /\ last_auth' = [ called |-> TRUE, at |-> now,
                      token_before |-> access_token,
                      expires_before |-> token_expires_at,
                      exchanged |-> r.exchanged, ok |-> r.ok ]

\* A variant of consume_page without the limit test of lines 376-377.
RECURSIVE consume_page_unbounded(_, _, _, _, _)
consume_page_unbounded(children, i, acc, lim, cutoff) ==
    IF i > Len(children)
    THEN [raised |-> FALSE, posts |-> acc, stop_pagination |-> FALSE]
    ELSE LET created_at == created_at_of(children[i])
         IN  IF created_at.raised THEN Raised
             ELSE IF cutoff # None /\ created_at.value < cutoff[1]
             THEN [raised |-> FALSE, posts |-> acc, stop_pagination |-> TRUE]
             ELSE LET built == trade_post_of(children[i], created_at.value)
                  IN  IF built.raised THEN Raised
                      ELSE consume_page_unbounded(children, i + 1,
                                                  Append(acc, built.post), lim, cutoff)

\* A variant of consume_page without the date test of lines 333-336.
RECURSIVE consume_page_undated(_, _, _, _, _)
consume_page_undated(children, i, acc, lim, cutoff) ==
    IF i > Len(children)
    THEN [raised |-> FALSE, posts |-> acc, stop_pagination |-> FALSE]
    ELSE LET created_at == created_at_of(children[i])
         IN  IF created_at.raised THEN Raised
             ELSE LET built == trade_post_of(children[i], created_at.value)
                  IN  IF built.raised THEN Raised
                      ELSE IF Len(acc) + 1 >= lim
                      THEN [ raised |-> FALSE, posts |-> Append(acc, built.post),
                             stop_pagination |-> FALSE ]
                      ELSE consume_page_undated(children, i + 1,
                                                Append(acc, built.post), lim, cutoff)

\* A variant of consume_page that skips a post older than the cutoff, as
\* search_subreddit does (continue), where lines 334-336 stop.
RECURSIVE consume_page_skipping(_, _, _, _, _)
consume_page_skipping(children, i, acc, lim, cutoff) ==
    IF i > Len(children)
    THEN [raised |-> FALSE, posts |-> acc, stop_pagination |-> FALSE]
    ELSE LET created_at == created_at_of(children[i])
         IN  IF created_at.raised THEN Raised
             ELSE IF cutoff # None /\ created_at.value < cutoff[1]
             THEN consume_page_skipping(children, i + 1, acc, lim, cutoff)
             ELSE LET built == trade_post_of(children[i], created_at.value)
                  IN  IF built.raised THEN Raised
                      ELSE IF Len(acc) + 1 >= lim
                      THEN [ raised |-> FALSE, posts |-> Append(acc, built.post),
                             stop_pagination |-> FALSE ]
                      ELSE consume_page_skipping(children, i + 1,
                                                 Append(acc, built.post), lim, cutoff)

(***************************************************************************)
(* get_posts_paginated: the body of the for loop over one page's children, *)
(* from child i on, with acc the posts accumulated so far.                 *)
(***************************************************************************)
RECURSIVE consume_page(_, _, _, _, _)
consume_page(children, i, acc, lim, cutoff) ==
    IF i > Len(children)
    THEN [raised |-> FALSE, posts |-> acc, stop_pagination |-> FALSE]
    ELSE LET created_at == created_at_of(children[i])
         IN  IF created_at.raised THEN Raised
             ELSE IF cutoff # None /\ created_at.value < cutoff[1]
             THEN [raised |-> FALSE, posts |-> acc, stop_pagination |-> TRUE]
             ELSE LET built == trade_post_of(children[i], created_at.value)
                  IN  IF built.raised THEN Raised
                      ELSE IF Len(acc) + 1 >= lim
                      THEN [ raised |-> FALSE, posts |-> Append(acc, built.post),
                             stop_pagination |-> FALSE ]
                      ELSE consume_page(children, i + 1, Append(acc, built.post),
                                        lim, cutoff)

\* data.get("data", {}).get("after")
next_after(resp) ==
    IF resp.after.tag = "val" THEN Some(resp.after.val) ELSE None

(***************************************************************************)
(* search_subreddit: the loop over the children of a search response.      *)
(***************************************************************************)
\* A variant of search_results without the test of lines 228-229.
RECURSIVE search_results_unfiltered(_, _, _, _)
search_results_unfiltered(children, i, six_months_ago, acc) ==
    IF i > Len(children) THEN [raised |-> FALSE, posts |-> acc]
    ELSE LET created_at == created_at_of(children[i])
         IN  IF created_at.raised THEN Raised
             ELSE LET built == trade_post_of(children[i], created_at.value)
                  IN  IF built.raised THEN Raised
                      ELSE search_results_unfiltered(children, i + 1, six_months_ago,
                                                     Append(acc, built.post))

RECURSIVE search_results(_, _, _, _)
search_results(children, i, six_months_ago, acc) ==
    IF i > Len(children) THEN [raised |-> FALSE, posts |-> acc]
    ELSE LET created_at == created_at_of(children[i])
         IN  IF created_at.raised THEN Raised
             ELSE IF created_at.value < six_months_ago
             THEN search_results(children, i + 1, six_months_ago, acc)
             ELSE LET built == trade_post_of(children[i], created_at.value)
                  IN  IF built.raised THEN Raised
                      ELSE search_results(children, i + 1, six_months_ago,
                                          Append(acc, built.post))

\* A variant of search_subreddit_body without the try/except of lines
\* 212-218: a failed request leaves the body as a RequestException.
search_subreddit_body_unguarded(resp) ==
    IF resp.kind # "ok" THEN [exc |-> "request_exception", posts |-> <<>>]
    ELSE LET r == search_results(resp.children, 1, now - days(180), <<>>)
         IN  IF r.raised THEN [exc |-> "other", posts |-> <<>>]
             ELSE [exc |-> "none", posts |-> r.posts]

\* What the body of search_subreddit does with the answer to its request:
\* the try/except around the request turns every failure into [].  exc is
\* "none", "request_exception" (what the retrying wrapper retries on) or
\* "other".
search_subreddit_body(resp) ==
    IF resp.kind # "ok" THEN [exc |-> "none", posts |-> <<>>]
    ELSE LET r == search_results(resp.children, 1, now - days(180), <<>>)
         IN  IF r.raised THEN [exc |-> "other", posts |-> <<>>]
             ELSE [exc |-> "none", posts |-> r.posts]

(***************************************************************************)
(* SerpAPIClient.search: the loop over organic_results, and the body.      *)
(***************************************************************************)
RECURSIVE serp_results(_, _, _)
serp_results(items, i, acc) ==
    IF i > Len(items) THEN [raised |-> FALSE, posts |-> acc]
    ELSE LET built == serp_post_of(items[i])
         IN  IF built.raised THEN Raised
             ELSE serp_results(items, i + 1, Append(acc, built.post))

serpapi_search_body(resp) ==
    IF resp.kind # "ok" THEN [exc |-> "none", posts |-> <<>>]
    ELSE LET r == serp_results(resp.organic_results, 1, <<>>)
         IN  IF r.raised THEN [exc |-> "other", posts |-> <<>>]
             ELSE [exc |-> "none", posts |-> r.posts]

(***************************************************************************)
(* The retrying wrapper of search_subreddit and SerpAPIClient.search:      *)
(* retry_if_exception_type((RequestException, TimeoutError)),              *)
(* stop_after_attempt(3), wait_exponential(multiplier=1, min=2, max=10).   *)
(***************************************************************************)
retries(exc, attempt_number) ==
    exc = "request_exception" /\ attempt_number < 3

retry_wait(attempt_number) ==
    LET exp == 2 ^ (attempt_number - 1)
    IN  IF exp < 2 THEN 2 ELSE IF exp > 10 THEN 10 ELSE exp

(***************************************************************************)
(* The program: main() constructs one collector, at StartTime, and calls   *)
(* collect() on it once.  A request and its answer are two steps: the      *)
(* answer is chosen when the request is sent and handled when it arrives.  *)
(***************************************************************************)
Init ==
    /\ reddit_available \in BOOLEAN
    /\ serpapi_available \in BOOLEAN
    /\ now = StartTime
    /\ access_token = None
    /\ token_expires_at = None
    /\ artist = None
    /\ limit = 0
    /\ source = "both"
    /\ max_pages = 0
    /\ months = 12
    /\ pc = "idle"
    /\ min_date = None
    /\ sub_i = 1
    /\ query_i = 1
    /\ posts = <<>>
    /\ after = None
    /\ page = 0
    /\ bearer = None
    /\ attempt = 0
    /\ all_posts = <<>>
    /\ unique_posts = <<>>
    /\ artist_posts = <<>>
    /\ trade_posts = <<>>
    /\ request = NoRequest
    /\ response = NoResponse
    /\ page_requests = 0
    /\ last_auth = NoAuth
    /\ warned = FALSE

\* collect(artist, limit, source, max_pages, months) is called: lines 668-671.
Collect ==
    /\ pc = "idle"
    /\ artist' \in Artists
    /\ limit' \in 0..RunMaxLimit
    /\ source' \in Sources
    /\ max_pages' \in 0..RunMaxPages
    /\ months' \in MonthsArgs
    /\ pc' = IF source' \in {"both", "reddit"} THEN "reddit_begin" ELSE "serp_gate"
    /\ UNCHANGED <<env, now, session, min_date, sub_i, query_i, paging, attempt,
                   all_posts, stages, wire, last_auth,
                   warned>>

\* collect_from_reddit_api, lines 573-585.
RedditBegin ==
    /\ pc = "reddit_begin"
    /\ IF ~reddit_available
       THEN /\ pc' = "serp_gate"
            /\ UNCHANGED <<session, last_auth, min_date>>
       ELSE \E resp \in TokenResponses :
                LET r == authenticate(resp)
                IN  /\ AuthCall(r)
                    /\ IF r.ok
                       THEN /\ min_date' = Some(now - days(months * 30))
                            /\ pc' = "paginate_begin"
                       ELSE /\ pc' = "serp_gate"
                            /\ UNCHANGED min_date
    /\ UNCHANGED <<env, now, args, sub_i, query_i, paging, attempt, all_posts,
                   stages, wire,
                   warned>>

\* get_posts_paginated, lines 296-307.
PaginateBegin ==
    /\ pc = "paginate_begin"
    /\ posts' = <<>>
    /\ after' = None
    /\ page' = 0
    /\ page_requests' = 0
    /\ IF access_token = None
       THEN \E resp \in TokenResponses :
                LET r == authenticate(resp)
                IN  /\ AuthCall(r)
                    /\ bearer' = r.access_token
                    /\ pc' = IF r.ok THEN "page_loop" ELSE "paginate_return"
       ELSE /\ bearer' = access_token
            /\ pc' = "page_loop"
            /\ UNCHANGED <<session, last_auth>>
    /\ UNCHANGED <<env, now, args, min_date, sub_i, query_i, attempt, all_posts,
                   stages, wire,
                   warned>>

\* The while test of line 309 and the request of lines 310-317.
PageSend(responses) ==
    /\ pc = "page_loop"
    /\ IF Len(posts) < limit /\ page < max_pages
       THEN /\ request' = Request("new", SUBREDDITS[sub_i], <<>>, after, bearer)
            /\ response' \in responses
            /\ page_requests' = page_requests + 1
            /\ pc' = "page_wait"
       ELSE /\ pc' = "paginate_return"
            /\ UNCHANGED <<wire, page_requests>>
    /\ UNCHANGED <<env, now, session, args, min_date, sub_i, query_i, posts,
                   after, page, bearer, attempt, all_posts, stages, last_auth,
                   warned>>

\* The answer to a listing request and the rest of the iteration, lines
\* 318-387.
PageReceive ==
    /\ pc = "page_wait"
    /\ warned' = (warned \/ response.kind # "ok")
    /\ IF response.kind # "ok" \/ response.children = <<>>
       THEN /\ pc' = "paginate_return"
            /\ UNCHANGED <<posts, after, page, now>>
       ELSE LET c == consume_page(response.children, 1, posts, limit, min_date)
            IN  IF c.raised
                THEN /\ pc' = "raised"
                     /\ UNCHANGED <<posts, after, page, now>>
                ELSE /\ posts' = c.posts
                     /\ IF c.stop_pagination
                        THEN /\ pc' = "paginate_return"
                             /\ UNCHANGED <<after, page, now>>
                        ELSE /\ after' = next_after(response)
                             /\ IF after' = None
                                THEN /\ pc' = "paginate_return"
                                     /\ UNCHANGED <<page, now>>
                                ELSE /\ page' = page + 1
                                     /\ now' = now + 1
                                     /\ pc' = "page_loop"
    /\ UNCHANGED <<env, session, args, min_date, sub_i, query_i, bearer, attempt,
                   all_posts, stages, wire, page_requests, last_auth>>

\* A variant of PaginateReturn for a loop that does not step to the next
\* subreddit: the same subreddit is listed again at once.
PaginateReturn_same_subreddit ==
    /\ pc = "paginate_return"
    /\ pc' = "paginate_begin"
    /\ request' = NoRequest
    /\ response' = NoResponse
    /\ UNCHANGED <<env, now, session, args, min_date, sub_i, query_i, paging,
                   attempt, all_posts, stages, last_auth, warned>>

\* get_posts_paginated returns (posts, after); collect_from_reddit_api,
\* lines 597-607, goes on to the next subreddit or to the keyword search.
PaginateReturn ==
    /\ pc = "paginate_return"
    /\ all_posts' = all_posts \o posts
    /\ now' = now + 1
    /\ IF sub_i < Len(SUBREDDITS)
       THEN /\ sub_i' = sub_i + 1
            /\ pc' = "paginate_begin"
            /\ UNCHANGED <<query_i, attempt>>
       ELSE IF artist # None
       THEN /\ sub_i' = 1
            /\ query_i' = 1
            /\ attempt' = 0
            /\ pc' = "search_begin"
       ELSE /\ pc' = "serp_gate"
            /\ UNCHANGED <<sub_i, query_i, attempt>>
    /\ request' = NoRequest
    /\ response' = NoResponse
    /\ UNCHANGED <<env, session, args, min_date, paging, stages, last_auth, warned>>

\* The loops of lines 608-614 step to the next query, subreddit, or end.
SearchAdvance ==
    IF query_i < 2
    THEN /\ query_i' = query_i + 1
         /\ pc' = "search_begin"
         /\ UNCHANGED sub_i
    ELSE IF sub_i < 2
    THEN /\ sub_i' = sub_i + 1
         /\ query_i' = 1
         /\ pc' = "search_begin"
    ELSE /\ pc' = "serp_gate"
         /\ UNCHANGED <<sub_i, query_i>>

\* One attempt of search_subreddit: lines 193-213.
SearchSend ==
    /\ pc = "search_begin"
    /\ IF access_token = None
       THEN \E resp \in TokenResponses :
                LET r == authenticate(resp)
                IN  /\ AuthCall(r)
                    /\ bearer' = r.access_token
                    /\ IF r.ok
                       THEN /\ request' = Request("search", SUBREDDITS[sub_i],
                                    get_search_queries(artist[1]).reddit_api[query_i],
                                    None, r.access_token)
                            /\ response' \in RunSearchResponses
                            /\ pc' = "search_wait"
                            /\ attempt' = attempt + 1
                            /\ UNCHANGED <<sub_i, query_i, now>>
                       ELSE /\ SearchAdvance
                            /\ attempt' = 0
                            /\ now' = now + 1
                            /\ UNCHANGED wire
       ELSE /\ bearer' = access_token
            /\ request' = Request("search", SUBREDDITS[sub_i],
                                  get_search_queries(artist[1]).reddit_api[query_i],
                                  None, access_token)
            /\ response' \in RunSearchResponses
            /\ pc' = "search_wait"
            /\ attempt' = attempt + 1
            /\ UNCHANGED <<session, last_auth, sub_i, query_i, now>>
    /\ UNCHANGED <<env, args, min_date, posts, after, page, page_requests,
                   all_posts, stages,
                   warned>>

\* The answer to a search request, lines 213-270, the wrapper's decision,
\* and lines 612-614 of the caller.
SearchReceive ==
    /\ pc = "search_wait"
    /\ warned' = (warned \/ response.kind # "ok")
    /\ request' = NoRequest
    /\ response' = NoResponse
    /\ LET body == search_subreddit_body(response)
       IN  IF retries(body.exc, attempt)
           THEN /\ now' = now + retry_wait(attempt)
                /\ pc' = "search_begin"
                /\ UNCHANGED <<all_posts, sub_i, query_i, attempt>>
           ELSE IF body.exc # "none"
           THEN /\ pc' = "raised"
                /\ UNCHANGED <<all_posts, sub_i, query_i, attempt, now>>
           ELSE /\ all_posts' = all_posts \o body.posts
                /\ now' = now + 1
                /\ attempt' = 0
                /\ SearchAdvance
    /\ UNCHANGED <<env, session, args, min_date, paging, stages, last_auth>>

\* collect(), lines 683-689, and collect_from_serpapi, lines 620-627.
SerpGate ==
    /\ pc = "serp_gate"
    /\ IF source \in {"both", "serpapi"} /\ artist # None /\ serpapi_available
       THEN /\ query_i' = 1
            /\ attempt' = 0
            /\ pc' = "serp_begin"
       ELSE /\ pc' = "dedup"
            /\ UNCHANGED <<query_i, attempt>>
    /\ UNCHANGED <<env, now, session, args, min_date, sub_i, paging, all_posts,
                   stages, wire, last_auth,
                   warned>>

\* One attempt of SerpAPIClient.search: lines 419-432.
SerpSend ==
    /\ pc = "serp_begin"
    /\ attempt' = attempt + 1
    /\ request' = Request("serpapi", "", get_search_queries(artist[1]).serpapi[query_i],
                          None, None)
    /\ response' \in RunSerpResponses
    /\ pc' = "serp_wait"
    /\ UNCHANGED <<env, now, session, args, min_date, sub_i, query_i, paging,
                   all_posts, stages, last_auth,
                   warned>>

\* The answer of the search engine, lines 432-468, the wrapper's decision,
\* and lines 629-635 of the caller.
SerpReceive ==
    /\ pc = "serp_wait"
    /\ warned' = (warned \/ response.kind # "ok")
    /\ request' = NoRequest
    /\ response' = NoResponse
    /\ LET body == serpapi_search_body(response)
       IN  IF retries(body.exc, attempt)
           THEN /\ now' = now + retry_wait(attempt)
                /\ pc' = "serp_begin"
                /\ UNCHANGED <<all_posts, query_i, attempt>>
           ELSE IF body.exc # "none"
           THEN /\ pc' = "raised"
                /\ UNCHANGED <<all_posts, query_i, attempt, now>>
           ELSE /\ all_posts' = all_posts \o body.posts
                /\ attempt' = 0
                /\ UNCHANGED now
                /\ IF query_i < Len(get_search_queries(artist[1]).serpapi)
                   THEN /\ query_i' = query_i + 1
                        /\ pc' = "serp_begin"
                   ELSE /\ pc' = "dedup"
                        /\ UNCHANGED query_i
    /\ UNCHANGED <<env, session, args, min_date, sub_i, paging, stages, last_auth>>

\* collect(), lines 691-698.
Dedup ==
    /\ pc = "dedup"
    /\ unique_posts' = deduplicate(all_posts)
    /\ pc' = "filter_artist"
    /\ UNCHANGED <<env, now, session, args, min_date, sub_i, query_i, paging,
                   attempt, all_posts, artist_posts, trade_posts, wire, last_auth,
                   warned>>

\* collect(), lines 702-708.
FilterArtist ==
    /\ pc = "filter_artist"
    /\ artist_posts' = IF artist # None
                       THEN filter_artist(unique_posts, artist[1])
                       ELSE unique_posts
    /\ pc' = "filter_trade"
    /\ UNCHANGED <<env, now, session, args, min_date, sub_i, query_i, paging,
                   attempt, all_posts, unique_posts, trade_posts, wire, last_auth,
                   warned>>

\* collect(), lines 710-712.
FilterTrade ==
    /\ pc = "filter_trade"
    /\ trade_posts' = filter_trade(artist_posts)
    /\ pc' = "sort"
    /\ UNCHANGED <<env, now, session, args, min_date, sub_i, query_i, paging,
                   attempt, all_posts, unique_posts, artist_posts, wire, last_auth,
                   warned>>

\* collect(), lines 714-715.
Sort ==
    /\ pc = "sort"
    /\ trade_posts' = sort_newest_first(trade_posts)
    /\ pc' = "truncate"
    /\ UNCHANGED <<env, now, session, args, min_date, sub_i, query_i, paging,
                   attempt, all_posts, unique_posts, artist_posts, wire, last_auth,
                   warned>>

\* collect(), lines 717-721.
Truncate ==
    /\ pc = "truncate"
    /\ trade_posts' = truncate(trade_posts, limit)
    /\ pc' = "done"
    /\ UNCHANGED <<env, now, session, args, min_date, sub_i, query_i, paging,
                   attempt, all_posts, unique_posts, artist_posts, wire, last_auth,
                   warned>>

Next ==
    \/ Collect
    \/ RedditBegin
    \/ PaginateBegin
    \/ PageSend(RunListingResponses)
    \/ PageReceive
    \/ PaginateReturn
    \/ SearchSend
    \/ SearchReceive
    \/ SerpGate
    \/ SerpSend
    \/ SerpReceive
    \/ Dedup
    \/ FilterArtist
    \/ FilterTrade
    \/ Sort
    \/ Truncate

Spec == Init /\ [][Next]_vars


(***************************************************************************)
(* One get_posts_paginated call on a client in any state a run can leave   *)
(* it in: no token, a token that stays valid, a token that expires during  *)
(* the call, or a token that has expired already (collect_from_reddit_api  *)
(* sleeps between its calls).                                              *)
(***************************************************************************)
PaginateSessions ==
    { [access_token |-> None, token_expires_at |-> None],
      [access_token |-> Some("tokA"), token_expires_at |-> Some(StartTime + 3540)],
      [access_token |-> Some("tokA"), token_expires_at |-> Some(StartTime + 1)],
      [access_token |-> Some("tokA"), token_expires_at |-> Some(StartTime)] }

InitPaginate ==
    /\ reddit_available \in BOOLEAN
    /\ serpapi_available = FALSE
    /\ now = StartTime
    /\ \E s \in PaginateSessions :
           /\ (~reddit_available => s.access_token = None)
           /\ access_token = s.access_token
           /\ token_expires_at = s.token_expires_at
    /\ artist = None
    /\ limit \in 0..MaxLimit
    /\ source = "reddit"
    /\ max_pages \in 0..MaxPagesArg
    /\ months = 12
    /\ pc = "paginate_begin"
    /\ min_date \in {None, Some(StartTime - days(months * 30))}
    /\ sub_i = 1
    /\ query_i = 1
    /\ posts = <<>>
    /\ after = None
    /\ page = 0
    /\ bearer = None
    /\ attempt = 0
    /\ all_posts = <<>>
    /\ unique_posts = <<>>
    /\ artist_posts = <<>>
    /\ trade_posts = <<>>
    /\ request = NoRequest
    /\ response = NoResponse
    /\ page_requests = 0
    /\ last_auth = NoAuth
    /\ warned = FALSE

NextPaginate ==
    \/ PaginateBegin
    \/ PageSend(ListingResponses)
    \/ PageReceive

SpecPaginate == InitPaginate /\ [][NextPaginate]_vars

(***************************************************************************)
(* A RedditAPIClient whose authenticate() is called again and again while  *)
(* time passes.                                                            *)
(***************************************************************************)
InitSession ==
    /\ Init
    /\ pc = "idle"

Authenticate ==
    /\ pc = "idle"
    /\ \E resp \in SessionTokenResponses : AuthCall(authenticate(resp))
    /\ UNCHANGED <<env, now, args, pc, min_date, sub_i, query_i, paging, attempt,
                   all_posts, stages, wire, warned>>

Elapse ==
    /\ pc = "idle"
    /\ now < StartTime + MaxElapsed
    /\ now' = now + 1
    /\ UNCHANGED <<env, session, args, pc, min_date, sub_i, query_i, paging,
                   attempt, all_posts, stages, wire, last_auth, warned>>

NextSession ==
    \/ Authenticate
    \/ Elapse

SpecSession == InitSession /\ [][NextSession]_vars

(***************************************************************************)
(* The aggregation stages of collect(), lines 691-721, on any list the     *)
(* sources can have returned.                                              *)
(***************************************************************************)
Sale == <<"U+D310", "U+B9E4">>

listed(data) == trade_post_of(data, created_at_of(data).value).post

found(item) == serp_post_of(item).post

\* Same post as PostRecent, listed without the trailing "/", no tag.
PostResale ==
    post_data(Val(<<"b", "t", "s">>), Val(Sale), Val(StartTime - days(2)),
              Val(<<"/", "r", "/", "a">>))

\* The same permalink once more, with two trailing "/".
PostChat ==
    post_data(Val(TitleChat), Val(<<>>), Val(StartTime - days(3)),
              Val(<<"/", "r", "/", "a", "/", "/">>))

\* "for sale" across the title and the body.
PostSplit ==
    post_data(Val(<<"f", "o", "r">>), Val(<<"s", "a", "l", "e", " ", "b", "t", "s">>),
              Val(StartTime - days(200)), Val(LinkB))

\* An upper-case keyword, an alias of the artist, no created_utc.
PostShout ==
    post_data(Val(<<"B", "a", "n", "g", "t", "a", "n">>),
              Val(<<"S", "E", "L", "L", "I", "N", "G">>), Missing,
              Val(<<"/", "r", "/", "c">>))

\* Neither a tag nor a keyword nor the artist.
PostIdle ==
    post_data(Val(TitleChat), Val(<<>>), Val(StartTime - days(4)),
              Val(<<"/", "r", "/", "d">>))

ItemTrade ==
    [ title |-> Val(<<"b", "t", "s", " ", "t", "r", "a", "d", "e">>),
      snippet |-> Missing,
      link |-> Val(<<"https://www.reddit.com">> \o LinkB) ]

\* The artists the stages are run for: none, one with aliases in the table
\* (BTS) and one without an entry.
Bangtan == <<"B", "a", "n", "g", "t", "a", "n">>

AggregateArtists == Artists \cup {Some(Bangtan)}

\* The limits the stages are run for; --limit takes any int.
AggregateLimits == {0 - 1} \cup 0..MaxLimit

AggregatePool ==
    { listed(PostRecent), listed(PostResale), listed(PostChat), listed(PostSplit),
      listed(PostShout), listed(PostIdle), found(ItemGood), found(ItemTrade) }

InitAggregate ==
    /\ reddit_available = TRUE
    /\ serpapi_available = TRUE
    /\ now = StartTime
    /\ access_token = None
    /\ token_expires_at = None
    /\ artist \in AggregateArtists
    /\ limit \in AggregateLimits
    /\ source = "both"
    /\ max_pages = 0
    /\ months = 12
    /\ pc = "dedup"
    /\ min_date = None
    /\ sub_i = 1
    /\ query_i = 1
    /\ posts = <<>>
    /\ after = None
    /\ page = 0
    /\ bearer = None
    /\ attempt = 0
    /\ all_posts \in SeqsUpTo(AggregatePool, MaxPosts)
    \* without an artist only the listing pages are read (lines 606, 683),
    \* and they give nothing under a limit of 0 or less (line 309)
    /\ artist = None =>
           /\ limit <= 0 => all_posts = <<>>
           /\ \A i \in 1..Len(all_posts) : all_posts[i] \notin {found(ItemGood), found(ItemTrade)}
    /\ unique_posts = <<>>
    /\ artist_posts = <<>>
    /\ trade_posts = <<>>
    /\ request = NoRequest
    /\ response = NoResponse
    /\ page_requests = 0
    /\ last_auth = NoAuth
    /\ warned = FALSE

NextAggregate ==
    \/ Dedup
    \/ FilterArtist
    \/ FilterTrade
    \/ Sort
    \/ Truncate

SpecAggregate == InitAggregate /\ [][NextAggregate]_vars

(***************************************************************************)
(* Normalization: one listing page with one child, whose title is put      *)
(* together from tag-like pieces and whose body is empty or long, is       *)
(* turned into a TradePost by get_posts_paginated.                         *)
(***************************************************************************)
TitleSegments ==
    { <<"[", "W", "T", "S", "]">>,
      <<"[", "u", "s", "a", "]">>,
      <<"[", "C", "a", "n", "a", "d", "a", "]">>,
      <<"[", " ", "u", "s", " ", "]">>,
      <<"w", "t", "b", " ">>,
      <<"i", "s", "o">>,
      <<"[", "X", "X", "]">>,
      <<"[">>,
      <<"[", "W", "T", "T", "/", "W", "T", "S", "]">>,
      <<"w", "t", "s", "/", "w", "t", "t">> }

RECURSIVE join(_)
join(pieces) ==
    IF pieces = <<>> THEN <<>> ELSE Head(pieces) \o join(Tail(pieces))

TitleSeventeen ==
    <<"[", "W", "T", "S", "]", "[", "U", "S", "A", "]", " ", "S", "e", "v", "e",
      "n", "t", "e", "e", "n", " ", "p", "h", "o", "t", "o", "c", "a", "r", "d">>

TitleCanada ==
    <<"[", "C", "a", "n", "a", "d", "a", "]", " ", "s", "e", "l", "l", "i", "n",
      "g", " ", "N", "C", "T", " ", "s", "e", "t">>

TitlePool ==
    { join(s) : s \in SeqsUpTo(TitleSegments, MaxSegments) } \cup
    {TitleSeventeen, TitleCanada}

\* A selftext of 501 characters.
LongBody == [i \in 1..501 |-> "a"]

BodyPool == {<<>>, LongBody}

NormalizePages ==
    { <<post_data(Val(t), Val(b), Val(StartTime - days(1)), Val(LinkA))>> :
          t \in TitlePool, b \in BodyPool }

NormalizeResponses == listing_responses(NormalizePages, {})

InitNormalize ==
    /\ reddit_available = TRUE
    /\ serpapi_available = FALSE
    /\ now = StartTime
    /\ access_token = Some("tokA")
    /\ token_expires_at = Some(StartTime + 3540)
    /\ artist = None
    /\ limit = 1
    /\ source = "reddit"
    /\ max_pages = 1
    /\ months = 12
    /\ pc = "paginate_begin"
    /\ min_date = Some(StartTime - days(months * 30))
    /\ sub_i = 1
    /\ query_i = 1
    /\ posts = <<>>
    /\ after = None
    /\ page = 0
    /\ bearer = None
    /\ attempt = 0
    /\ all_posts = <<>>
    /\ unique_posts = <<>>
    /\ artist_posts = <<>>
    /\ trade_posts = <<>>
    /\ request = NoRequest
    /\ response = NoResponse
    /\ page_requests = 0
    /\ last_auth = NoAuth
    /\ warned = FALSE

NextNormalize ==
    \/ PaginateBegin
    \/ PageSend(NormalizeResponses)
    \/ PageReceive

SpecNormalize == InitNormalize /\ [][NextNormalize]_vars

(***************************************************************************)
(* The listing loop of collect_from_reddit_api, lines 588-603, on an       *)
(* authenticated client: every subreddit in turn, each with up to          *)
(* max_pages pages that hand one of two cursors on.                        *)
(***************************************************************************)
VisitCursors == {"t3_a", "t3_b"}

VisitPages == { <<>>, <<PostRecent>> }

VisitResponses == listing_responses(VisitPages, VisitCursors)

InitVisit ==
    /\ reddit_available = TRUE
    /\ serpapi_available = FALSE
    /\ now = StartTime
    /\ access_token = Some("tokA")
    /\ token_expires_at = Some(StartTime + 3540)
    /\ artist = None
    /\ limit \in 1..MaxLimit
    /\ source = "reddit"
    /\ max_pages \in 1..MaxPagesArg
    /\ months = 12
    /\ pc = "paginate_begin"
    /\ min_date = Some(StartTime - days(months * 30))
    /\ sub_i = 1
    /\ query_i = 1
    /\ posts = <<>>
    /\ after = None
    /\ page = 0
    /\ bearer = None
    /\ attempt = 0
    /\ all_posts = <<>>
    /\ unique_posts = <<>>
    /\ artist_posts = <<>>
    /\ trade_posts = <<>>
    /\ request = NoRequest
    /\ response = NoResponse
    /\ page_requests = 0
    /\ last_auth = NoAuth
    /\ warned = FALSE

NextVisit ==
    \/ PaginateBegin
    \/ PageSend(VisitResponses)
    \/ PageReceive
    \/ PaginateReturn

SpecVisit == InitVisit /\ [][NextVisit]_vars

(***************************************************************************)
(* A collect() run without artist on the feed source alone, from the       *)
(* listing loop to the return of collect(), that goes on: the interpreter  *)
(* takes the next step of the single thread whenever there is one (every   *)
(* request is answered or times out after 30 s, every sleep ends).         *)
(***************************************************************************)
NextListingRun ==
    \/ PaginateBegin
    \/ PageSend(VisitResponses)
    \/ PageReceive
    \/ PaginateReturn
    \/ SerpGate
    \/ Dedup
    \/ FilterArtist
    \/ FilterTrade
    \/ Sort
    \/ Truncate

\* The step that follows the answer to a listing request: PageReceive
\* always leaves "page_wait", for the loop, the return or an exception.
PageAnswered == pc = "page_wait" /\ pc' \in {"page_loop", "paginate_return", "raised"}

\* requests.get(..., timeout=30) is answered or fails, time.sleep ends, and
\* the thread takes its next statement.
FairListingRun ==
    /\ InitVisit
    /\ [][NextListingRun]_vars
    /\ WF_vars(PaginateBegin)
    /\ WF_vars(PageSend(VisitResponses))
    /\ WF_pc(PageAnswered)
    /\ WF_vars(PaginateReturn)
    /\ WF_vars(SerpGate)
    /\ WF_vars(Dedup)
    /\ WF_vars(FilterArtist)
    /\ WF_vars(FilterTrade)
    /\ WF_vars(Sort)
    /\ WF_vars(Truncate)


(***************************************************************************)
(* Properties.                                                             *)
(***************************************************************************)

\* A permalink without its trailing "/" characters: its longest prefix that
\* does not end in "/".
CanonicalUrl(u) ==
    LET n == CHOOSE k \in 0..Len(u) :
                 /\ k = 0 \/ u[k] # "/"
                 /\ \A j \in (k + 1)..Len(u) : u[j] = "/"
    IN  SubSeq(u, 1, n)

\* The positions of all_posts that hold the first post of their canonical URL.
FirstOccurrences ==
    { i \in 1..Len(all_posts) :
          \A j \in 1..(i - 1) :
              CanonicalUrl(all_posts[j].permalink) # CanonicalUrl(all_posts[i].permalink) }

\* The k-th of these positions, in input order.
NthFirstOccurrence(k) ==
    CHOOSE i \in FirstOccurrences :
        Cardinality({ j \in FirstOccurrences : j <= i }) = k

\* C1: after the de-duplication of collect(), unique_posts holds exactly one
\* post per canonical URL of all_posts (the permalink without trailing "/"),
\* that post is the first of its URL in input order, the kept posts stand in
\* input order, and de-duplicating unique_posts again changes nothing.
C1_DeduplicationKeepsFirstPerUrl ==
    pc \in {"filter_artist", "filter_trade", "sort", "truncate", "done"} =>
        /\ Len(unique_posts) = Cardinality(FirstOccurrences)
        /\ \A k \in 1..Len(unique_posts) :
               unique_posts[k] = all_posts[NthFirstOccurrence(k)]
        /\ deduplicate(unique_posts) = unique_posts

\* C1 happens: two posts whose permalinks differ only in trailing "/" came
\* in, a post of another URL too, and the later of the two was dropped.
C1_Witness ==
    /\ pc = "filter_artist"
    /\ Len(all_posts) = 3
    /\ Len(unique_posts) = 2
    /\ all_posts[1].permalink # all_posts[3].permalink
    /\ CanonicalUrl(all_posts[1].permalink) = CanonicalUrl(all_posts[3].permalink)
    /\ Len(all_posts[3].permalink) = Len(all_posts[1].permalink) + 2
    /\ unique_posts = <<all_posts[1], all_posts[2]>>

\* C2: one get_posts_paginated call sends at most max_pages listing requests
\* and holds, hence returns, at most limit posts (limit >= 0).
C2_PaginationBounds ==
    /\ page_requests <= max_pages
    /\ Len(posts) <= limit

\* C2 happens: a call returns with both bounds met, after its second page.
C2_Witness ==
    /\ pc = "paginate_return"
    /\ max_pages >= 2
    /\ page_requests = max_pages
    /\ limit >= 2
    /\ Len(posts) = limit

\* created_utc of child i of the page that is on its way (0 when absent).
ChildTime(i) == dict_get(response.children[i].created_utc, 0).val

\* The children of the page are in decreasing created_at order.
PageDecreasing ==
    /\ \A i \in 1..Len(response.children) :
           dict_get(response.children[i].created_utc, 0).tag = "val"
    /\ \A i, j \in 1..Len(response.children) : i < j => ChildTime(i) >= ChildTime(j)

\* The first child of the page that is older than min_date, 0 if none.
FirstOld ==
    IF \E i \in 1..Len(response.children) : ChildTime(i) < min_date[1]
    THEN CHOOSE i \in 1..Len(response.children) :
             /\ ChildTime(i) < min_date[1]
             /\ \A j \in 1..(i - 1) : ChildTime(j) >= min_date[1]
    ELSE 0

\* C3: with min_date set and a page in decreasing created_at order, when the
\* loop of get_posts_paginated comes to a child older than min_date, only
\* the children before it are added to the result, none of the result is
\* older than min_date, and the call returns without another page request.
C3_DateCutoffStopsPagination ==
    [][ ( /\ pc = "page_wait"
          /\ response.kind = "ok"
          /\ min_date # None
          /\ PageDecreasing
          /\ FirstOld > 0
          /\ Len(posts) + FirstOld - 1 < limit )
        => ( /\ Len(posts') = Len(posts) + FirstOld - 1
             /\ \A i \in 1..Len(posts') :
                    posts'[i].created_timestamp[1] >= min_date[1]
             /\ pc' = "paginate_return"
             /\ page_requests' = page_requests ) ]_vars

\* C3 happens: a call returned on a page whose second child is older than
\* min_date, with room left under limit, pages left and a cursor offered.
C3_Witness ==
    /\ pc = "paginate_return"
    /\ response.kind = "ok"
    /\ min_date # None
    /\ Len(response.children) >= 2
    /\ PageDecreasing
    /\ FirstOld = 2
    /\ response.after.tag = "val"
    /\ page_requests < max_pages
    /\ Len(posts) = 1
    /\ Len(posts) < limit

\* C4: a feed-search or search-engine call whose request failed with a
\* transient error returns only from its third attempt.
C4_GivesUpAfterThreeAttempts ==
    [][ ( /\ pc \in {"search_wait", "serp_wait"}
          /\ response.kind = "transient"
          /\ attempt' = 0 )
        => attempt = 3 ]_vars

\* C5: whenever a listing page request is on the wire, it was sent with a
\* cached token that had not expired.
C5_SessionValidAtEveryPageRequest ==
    pc = "page_wait" =>
        /\ access_token # None
        /\ token_expires_at # None
        /\ now < token_expires_at[1]

\* The last authenticate() call found a cached token that had not expired.
ValidAtCall ==
    /\ last_auth.token_before # None
    /\ last_auth.expires_before # None
    /\ last_auth.at < last_auth.expires_before[1]

\* C6: an authenticate() call made while a token is cached and now is
\* before its expiry returns True, sends no token exchange and leaves the
\* token and its expiry as they were; an exchange is sent only when no
\* token is cached or it has expired.
C6_CacheHitSendsNothing ==
    last_auth.called =>
        /\ ValidAtCall =>
               /\ last_auth.ok
               /\ ~last_auth.exchanged
               /\ access_token = last_auth.token_before
               /\ token_expires_at = last_auth.expires_before
        /\ last_auth.exchanged => ~ValidAtCall

\* C6 happens: a call made after time has passed found the token valid.
C6_Witness ==
    /\ last_auth.called
    /\ ValidAtCall
    /\ last_auth.at > StartTime
    /\ last_auth.ok
    /\ ~last_auth.exchanged

\* C7: once collect() has sorted, any two posts that both have a timestamp
\* stand in descending created_timestamp order and every post without one
\* stands after all posts that have one.
C7_NewestFirstUndatedLast ==
    pc \in {"truncate", "done"} =>
        \A i, j \in 1..Len(trade_posts) :
            i < j =>
                /\ ( /\ trade_posts[i].created_timestamp # None
                     /\ trade_posts[j].created_timestamp # None )
                   => trade_posts[i].created_timestamp[1]
                          >= trade_posts[j].created_timestamp[1]
                /\ trade_posts[i].created_timestamp = None
                   => trade_posts[j].created_timestamp = None

\* C7 happens: three posts came in undated first and oldest before newest,
\* and all three were sorted.
C7_Witness ==
    /\ pc = "truncate"
    /\ Len(all_posts) = 3
    /\ Len(trade_posts) = 3
    /\ all_posts[1].created_timestamp = None
    /\ all_posts[2].created_timestamp # None
    /\ all_posts[3].created_timestamp # None
    /\ all_posts[2].created_timestamp[1] < all_posts[3].created_timestamp[1]
    /\ trade_posts = <<all_posts[3], all_posts[2], all_posts[1]>>

\* C8: when a listing, feed-search or search-engine request fails, whatever
\* the failure, the run does not raise and all_posts is left as it was; a
\* listing call returns with the posts of its earlier pages, a feed-search
\* call is followed by the next query, subreddit or source, a search-engine
\* call by the next query or the aggregation.
C8_FailedRequestIsNotFatal ==
    [][ ( /\ pc \in {"page_wait", "search_wait", "serp_wait"}
          /\ response.kind # "ok" )
        => ( /\ pc' # "raised"
             /\ all_posts' = all_posts
             /\ pc = "page_wait" =>
                    /\ posts' = posts
                    /\ pc' = "paginate_return"
             /\ pc = "search_wait" =>
                    IF query_i < 2
                    THEN pc' = "search_begin" /\ sub_i' = sub_i /\ query_i' = query_i + 1
                    ELSE IF sub_i < 2
                    THEN pc' = "search_begin" /\ sub_i' = sub_i + 1 /\ query_i' = 1
                    ELSE pc' = "serp_gate"
             /\ pc = "serp_wait" =>
                    IF query_i < 5
                    THEN pc' = "serp_begin" /\ query_i' = query_i + 1
                    ELSE pc' = "dedup" ) ]_vars

\* C8 happens: a run in which a request failed has returned a list that is
\* not empty.
C8_Witness ==
    /\ pc = "done"
    /\ warned
    /\ trade_posts # <<>>

\* C9: collect() does not raise.
C9_NeverRaises == pc # "raised"

\* A post is accepted: its transaction type is present, or a trade keyword
\* occurs in the lower-cased text of its title, a space and its body.
Accepted(post) ==
    \/ post.transaction_type # None
    \/ \E k \in DOMAIN TRADE_KEYWORDS :
           contains(lower(post.title \o <<" ">> \o post.selftext), TRADE_KEYWORDS[k])

\* C10: the trade filter keeps exactly the accepted posts of artist_posts,
\* in order; a post without transaction type whose body contains the
\* keyword U+D310 U+B9E4 is kept.
C10_TradeFilterKeepsAccepted ==
    pc = "sort" =>
        /\ trade_posts = SelectSeq(artist_posts, Accepted)
        /\ \A i \in 1..Len(artist_posts) :
               ( /\ artist_posts[i].transaction_type = None
                 /\ contains(artist_posts[i].selftext, Sale) )
               => \E j \in 1..Len(trade_posts) : trade_posts[j] = artist_posts[i]

\* C10 happens: the filter kept a post without transaction type for the
\* keyword in its body, kept one for an upper-case keyword, and dropped one.
C10_Witness ==
    /\ pc = "sort"
    /\ Len(artist_posts) = 3
    /\ Len(trade_posts) = 2
    /\ trade_posts[1].transaction_type = None
    /\ contains(trade_posts[1].selftext, Sale)
    /\ trade_posts[2].transaction_type = None
    /\ trade_posts[2].selftext = <<"S", "E", "L", "L", "I", "N", "G">>


\* The variants of the artist of this run: the lower-cased artist and, when
\* the alias table has an entry under it, the aliases of that entry.
TopicVariants ==
    {lower(artist[1])} \cup
    UNION { { artist_aliases[e][2][k] : k \in DOMAIN artist_aliases[e][2] } :
                e \in { i \in DOMAIN artist_aliases :
                            artist_aliases[i][1] = lower(artist[1]) } }

\* A variant occurs in the lower-cased text of title, a space and body.
OnTopic(post) ==
    \E v \in TopicVariants :
        contains(lower(post.title \o <<" ">> \o post.selftext), v)

\* C11: with an artist, the artist filter keeps exactly the posts of
\* unique_posts in whose text the artist or one of its aliases occurs,
\* whatever the case, in order; an artist without an entry in the alias
\* table stands for itself alone; without an artist every post passes.
C11_ArtistFilterKeepsOnTopic ==
    pc = "filter_trade" =>
        /\ artist = None => artist_posts = unique_posts
        /\ artist # None => artist_posts = SelectSeq(unique_posts, OnTopic)
        /\ artist = Some(Bangtan) =>
               \A i \in 1..Len(artist_posts) :
                   contains(lower(artist_posts[i].title \o <<" ">> \o
                                  artist_posts[i].selftext), lower(Bangtan))
        /\ artist = Some(BTS) =>
               \A i \in 1..Len(unique_posts) :
                   contains(lower(unique_posts[i].title), lower(Bangtan))
                   => \E j \in 1..Len(artist_posts) : artist_posts[j] = unique_posts[i]

\* C11 happens: for BTS the filter kept a post that names the artist, kept
\* one that names only an alias in other case, and dropped a third.
C11_Witness ==
    /\ pc = "filter_trade"
    /\ artist = Some(BTS)
    /\ Len(unique_posts) = 3
    /\ Len(artist_posts) = 2
    /\ contains(lower(artist_posts[1].title), lower(BTS))
    /\ artist_posts[2].title = Bangtan
    /\ ~contains(lower(artist_posts[2].title \o <<" ">> \o artist_posts[2].selftext),
                 lower(BTS))

\* The transaction-type tokens in priority order.
PriorityTokens ==
    << <<"W", "T", "S">>, <<"W", "T", "B">>, <<"W", "T", "T">>,
       <<"W", "T", "T", "/", "W", "T", "S">>, <<"W", "T", "S", "/", "W", "T", "T">>,
       <<"I", "S", "O">> >>

\* The positions of PriorityTokens whose token occurs in the title, case
\* aside.
TokenHits(title) ==
    { i \in DOMAIN PriorityTokens : contains(lower(title), lower(PriorityTokens[i])) }

\* C12: the transaction type of a post built from a title is the first
\* token of the priority list that occurs in the title, case aside, and
\* absent when none occurs; "[WTS][USA] Seventeen photocard" gives WTS and
\* "[Canada] selling NCT set" gives none.
C12_TransactionTypeIsFirstHit ==
    \A n \in 1..Len(posts) :
        LET hits == TokenHits(posts[n].title)
        IN  /\ hits = {} => posts[n].transaction_type = None
            /\ hits # {} =>
                   posts[n].transaction_type =
                       Some(PriorityTokens[CHOOSE i \in hits : \A j \in hits : i <= j])
            /\ posts[n].title = TitleSeventeen =>
                   posts[n].transaction_type = Some(<<"W", "T", "S">>)
            /\ posts[n].title = TitleCanada => posts[n].transaction_type = None

\* C12 happens: a title in which two tokens occur, the later-listed one
\* first in the text, was parsed.
C12_Witness ==
    /\ pc = "paginate_return"
    /\ Len(posts) = 1
    /\ posts[1].title = <<"w", "t", "b", " ", "[", "W", "T", "S", "]">>
    /\ posts[1].transaction_type = Some(<<"W", "T", "S">>)

\* The end of the bracketed segment that starts at the "[" at position i of
\* t: the position of the next "]".
SegmentEnd(t, i) ==
    CHOOSE j \in (i + 1)..Len(t) :
        /\ t[j] = "]"
        /\ \A k \in (i + 1)..(j - 1) : t[k] # "]"

\* The positions at which a bracketed segment of t starts: a "[" followed
\* by at least one character other than "]" and then a "]", and not itself
\* within an earlier segment.
SegmentStarts(t) ==
    { i \in 1..Len(t) :
          /\ t[i] = "["
          /\ \E j \in (i + 2)..Len(t) :
                 /\ t[j] = "]"
                 /\ \A k \in (i + 1)..(j - 1) : t[k] # "]"
          /\ ~\E k \in 1..(i - 1) :
                  /\ t[k] = "["
                  /\ \A m \in k..(i - 1) : t[m] # "]" }

Segment(t, i) == SubSeq(t, i + 1, SegmentEnd(t, i) - 1)

\* s without the spaces around it.
Trimmed(s) ==
    IF \A i \in 1..Len(s) : s[i] = " " THEN <<>>
    ELSE LET first == CHOOSE i \in 1..Len(s) :
                          s[i] # " " /\ \A k \in 1..(i - 1) : s[k] = " "
             last == CHOOSE i \in 1..Len(s) :
                         s[i] # " " /\ \A k \in (i + 1)..Len(s) : s[k] = " "
         IN  SubSeq(s, first, last)

IsRegionEntry(key) == \E e \in DOMAIN country_mapping : country_mapping[e][1] = key

RegionOf(key) ==
    country_mapping[CHOOSE e \in DOMAIN country_mapping : country_mapping[e][1] = key][2]

\* The region of post n as the first bracketed segment of its upper-cased
\* title that is a table entry gives it, the segments taken trimmed or as
\* they stand.
RegionByFirstEntry(n, trimmed) ==
    LET t == upper(posts[n].title)
        text(i) == IF trimmed THEN Trimmed(Segment(t, i)) ELSE Segment(t, i)
        hits == { i \in SegmentStarts(t) : IsRegionEntry(text(i)) }
    IN  IF hits = {} THEN None
        ELSE Some(RegionOf(text(CHOOSE i \in hits : \A j \in hits : i <= j)))

\* C13: the country of a post built from a title is the table value of the
\* first bracketed segment of the upper-cased title that, with the spaces
\* around it stripped, is an entry of the country table, and absent when no
\* segment is; "[Canada] selling NCT set" gives CAN and "[WTS][USA]
\* Seventeen photocard" gives USA.
C13_CountryIsFirstTrimmedEntry ==
    \A n \in 1..Len(posts) :
        /\ posts[n].country = RegionByFirstEntry(n, TRUE)
        /\ posts[n].title = TitleCanada => posts[n].country = Some(<<"C", "A", "N">>)
        /\ posts[n].title = TitleSeventeen => posts[n].country = Some(<<"U", "S", "A">>)

\* C13 as stated: the segments are looked up as they stand between the
\* brackets.
C13_CountryIsFirstEntry ==
    \A n \in 1..Len(posts) : posts[n].country = RegionByFirstEntry(n, FALSE)

\* C13 happens: a title with two segments that are both entries, the first
\* in lower case, was parsed and the first one gave the country.
C13_Witness ==
    /\ pc = "paginate_return"
    /\ Len(posts) = 1
    /\ posts[1].title = <<"[", "u", "s", "a", "]", "[", "C", "a", "n", "a", "d", "a", "]">>
    /\ posts[1].country = Some(<<"U", "S", "A">>)

\* The number of posts a limit allows: none for a negative limit.
Allowed == IF limit > 0 THEN limit ELSE 0

\* C14: the truncation of collect() leaves the first posts of the ranked
\* list, as many as the limit allows, and drops the rest.
C14_TruncationKeepsRankedPrefix ==
    [][ pc = "truncate" =>
            trade_posts' =
                SubSeq(trade_posts, 1,
                       IF Len(trade_posts) < Allowed THEN Len(trade_posts) ELSE Allowed)
      ]_vars


\* C15: the body a TradePost holds (selftext) has at most 500 characters.
C15_BodyExcerptCapped ==
    \A n \in 1..Len(posts) : Len(posts[n].selftext) <= 500

\* The positions of a run once the feed source has been left.
AfterFeed ==
    {"serp_gate", "serp_begin", "serp_wait", "dedup", "filter_artist",
     "filter_trade", "sort", "truncate", "done", "raised"}

\* The token exchange of the step failed: it was sent and left the client
\* without a token or without an expiry.
ExchangeFailed ==
    /\ last_auth'.called
    /\ last_auth'.exchanged
    /\ access_token' = None \/ token_expires_at' = None

Deduplicated ==
    LET first == FirstOccurrences
    IN  SelectSeq([ i \in 1..Len(all_posts) |-> [at |-> i, post |-> all_posts[i]] ],
                  LAMBDA e : e.at \in first)

\* The posts of Deduplicated on the topic of the run, then the accepted ones.
Relevant ==
    LET kept(e) == (artist = None \/ OnTopic(e.post)) /\ Accepted(e.post)
        rel == SelectSeq(Deduplicated, kept)
    IN  [ k \in 1..Len(rel) |-> rel[k].post ]

\* Post i of rel goes before post j in the ranking: it is newer, or dated
\* while j is not, or neither and it stands before j.
RankedBefore(rel, i, j) ==
    LET a == rel[i].created_timestamp
        b == rel[j].created_timestamp
    IN  \/ a # None /\ b = None
        \/ a # None /\ b # None /\ a[1] > b[1]
        \/ i < j /\ (a = b \/ (a # None /\ b # None /\ a[1] = b[1]))

\* rel, ranked.
RankOf(rel) ==
    [ k \in 1..Len(rel) |->
        rel[CHOOSE i \in 1..Len(rel) :
                Cardinality({ j \in 1..Len(rel) : RankedBefore(rel, j, i) }) = k - 1] ]

Ranked == RankOf(Relevant)

\* C17: the list collect() returns is the ranking of the accepted on-topic
\* posts of the de-duplicated all_posts, cut to the limit: a prefix of
\* Ranked, of min(limit, length) posts for a limit >= 0.  So when the first
\* post of all_posts is on topic and accepted and every other post is off
\* topic or has the URL of the first, a limit >= 1 returns that one post.
C17_PipelineOrder ==
    pc = "done" =>
        /\ LET ranked == Ranked
           IN  /\ Len(trade_posts) <= Len(ranked)
               /\ trade_posts = SubSeq(ranked, 1, Len(trade_posts))
               /\ limit >= 0 =>
                      Len(trade_posts) = (IF limit < Len(ranked) THEN limit ELSE Len(ranked))
        /\ ( /\ artist # None
             /\ limit >= 1
             /\ all_posts # <<>>
             /\ OnTopic(all_posts[1])
             /\ Accepted(all_posts[1])
             /\ \A i \in 2..Len(all_posts) :
                    \/ ~OnTopic(all_posts[i])
                    \/ CanonicalUrl(all_posts[i].permalink)
                           = CanonicalUrl(all_posts[1].permalink) )
           => trade_posts = <<all_posts[1]>>

\* C17 happens: a post on the topic BTS with a trade keyword, a post off
\* topic and a second post of the first one's URL came in, and the run
\* returned the first alone.
C17_Witness ==
    /\ pc = "done"
    /\ artist = Some(BTS)
    /\ limit = 2
    /\ Len(all_posts) = 3
    /\ OnTopic(all_posts[1])
    /\ Accepted(all_posts[1])
    /\ ~OnTopic(all_posts[2])
    /\ all_posts[3] # all_posts[1]
    /\ OnTopic(all_posts[3])
    /\ Accepted(all_posts[3])
    /\ CanonicalUrl(all_posts[3].permalink) = CanonicalUrl(all_posts[1].permalink)
    /\ trade_posts = <<all_posts[1]>>

\* C18: between the answer to a request and the next request to the same
\* upstream time passes: before the next listing page, before the listing
\* of the next subreddit or the first feed search, before the next feed
\* search (or the retry of one), and before the next search-engine request.
C18_ThrottleBetweenRequests ==
    [][ /\ (pc = "page_wait" /\ pc' = "page_loop") => now' > now
        /\ (pc = "paginate_return" /\ pc' \in {"paginate_begin", "search_begin"})
               => now' > now
        /\ (pc = "search_wait" /\ pc' = "search_begin") => now' > now
        /\ (pc = "serp_wait" /\ pc' = "serp_begin") => now' > now
      ]_vars

\* C19: when a listing request of get_posts_paginated fails, the call
\* returns without another request, with the posts of the earlier pages and
\* with the cursor it sent with the failed request: None on the first page.
C19_FailedPageReturnsAccumulated ==
    [][ (pc = "page_wait" /\ response.kind # "ok") =>
            /\ pc' = "paginate_return"
            /\ page_requests' = page_requests
            /\ posts' = posts
            /\ after' = after
            /\ after' = request.after
            /\ page_requests = 1 => (posts' = <<>> /\ after' = None)
      ]_vars

\* C19 happens: the second page request of a call failed, and the call has
\* returned the posts of the first page and the cursor of the first page.
C19_Witness ==
    /\ pc = "paginate_return"
    /\ response.kind \in {"transient", "rejected"}
    /\ page_requests = 2
    /\ posts # <<>>
    /\ after # None
    /\ request.after = after

\* C20: the listing requests of a run go to the subreddits in the order of
\* SUBREDDITS, all requests of one before the first of the next; the first
\* request to a subreddit carries no cursor, and every later one carries
\* the "after" of the answer to the request before it.
C20_RequestOrder ==
    [][ /\ sub_i' # sub_i =>
               /\ sub_i' = sub_i + 1
               /\ pc = "paginate_return"
               /\ pc' = "paginate_begin"
        /\ (pc = "page_loop" /\ pc' = "page_wait") =>
               /\ request'.endpoint = "new"
               /\ request'.subreddit = SUBREDDITS[sub_i]
               /\ sub_i' = sub_i
               /\ IF page_requests = 0
                  THEN request'.after = None
                  ELSE /\ request.subreddit = SUBREDDITS[sub_i]
                       /\ response.kind = "ok"
                       /\ response.after.tag = "val"
                       /\ request'.after = Some(response.after.val)
      ]_vars

\* C20 happens: after the requests to the first subreddit, the second page
\* request to the second subreddit is on its way with the cursor "t3_b" of
\* the answer to the first.
C20_Witness ==
    /\ pc = "page_wait"
    /\ sub_i = 2
    /\ page_requests = 2
    /\ request.subreddit = SUBREDDITS[2]
    /\ request.after = Some("t3_b")
    /\ all_posts # <<>>

PhaseOf(p) ==
    CASE p \in {"idle", "reddit_begin", "paginate_begin", "page_loop", "page_wait",
                "paginate_return"} -> 1
      [] p \in {"search_begin", "search_wait"} -> 2
      [] p \in {"serp_gate", "serp_begin", "serp_wait"} -> 3
      [] OTHER -> 4

\* C22: without an artist a run sends listing requests only.  With one, the
\* feed searches follow the listing of the last subreddit, go to the first
\* two subreddits with queries that hold the artist, and the search-engine
\* queries, which hold the artist too, follow them when the source argument
\* admits the search engine and its key is set; no phase is gone back to.
C22_KeywordQueriesNeedArtist ==
    [][ /\ PhaseOf(pc') >= PhaseOf(pc)
        /\ (pc' \in {"page_wait", "search_wait", "serp_wait"} /\ pc' # pc) =>
               /\ request'.endpoint =
                      (CASE pc' = "page_wait" -> "new"
                         [] pc' = "search_wait" -> "search"
                         [] pc' = "serp_wait" -> "serpapi")
               /\ request'.endpoint \in {"search", "serpapi"} =>
                      /\ artist # None
                      /\ contains(request'.query, artist[1])
               /\ request'.endpoint = "search" =>
                      /\ source \in {"both", "reddit"}
                      /\ request'.subreddit \in {SUBREDDITS[1], SUBREDDITS[2]}
               /\ request'.endpoint = "serpapi" =>
                      source \in {"both", "serpapi"}
        /\ (pc = "paginate_return" /\ sub_i = Len(SUBREDDITS)) =>
               (pc' = "search_begin" <=> artist # None)
        /\ pc = "serp_gate" =>
               (pc' = "serp_begin" <=>
                    (artist # None /\ source \in {"both", "serpapi"} /\ serpapi_available))
      ]_vars

\* C22 happens: in a run for an artist on both sources the listing and the
\* feed searches are over and a search-engine query is on its way.
C22_Witness ==
    /\ pc = "serp_wait"
    /\ artist # None
    /\ source = "both"
    /\ last_auth.ok
    /\ request.endpoint = "serpapi"
    /\ contains(request.query, artist[1])

\* C23: every post a feed search adds to all_posts was created no more than
\* 180 days before the time of the call.
C23_SearchResultsAreRecent ==
    [][ pc = "search_wait" =>
            /\ Len(all_posts') >= Len(all_posts)
            /\ SubSeq(all_posts', 1, Len(all_posts)) = all_posts
            /\ \A i \in (Len(all_posts) + 1)..Len(all_posts') :
                   /\ all_posts'[i].created_timestamp # None
                   /\ all_posts'[i].created_timestamp[1] >= now - 180 * 86400
      ]_vars

\* C23 happens: the answer to a feed search is in hand, its first child
\* older than 180 days and its second newer.
C23_Witness ==
    /\ pc = "search_wait"
    /\ response.kind = "ok"
    /\ Len(response.children) = 2
    /\ dict_get(response.children[1].created_utc, 0).val < now - 180 * 86400
    /\ dict_get(response.children[2].created_utc, 0).val >= now - 180 * 86400

\* C24: after an authenticate() call that returned False the token and its
\* expiry are what they were before the call, and at all times the two are
\* both absent or both present.
C24_FailedAuthLeavesSession ==
    /\ (last_auth.called /\ ~last_auth.ok) =>
           /\ access_token = last_auth.token_before
           /\ token_expires_at = last_auth.expires_before
    /\ (access_token = None) <=> (token_expires_at = None)

\* C25: with a min_date, no post that get_posts_paginated holds, hence
\* returns, is older than min_date, in whatever order the children of a
\* page stand; and a page whose first child has no created_utc adds nothing
\* and ends the call.
C25_NothingOlderThanMinDate ==
    [][ min_date # None =>
            /\ \A i \in 1..Len(posts') :
                   /\ posts'[i].created_timestamp # None
                   /\ posts'[i].created_timestamp[1] >= min_date[1]
            /\ ( /\ pc = "page_wait"
                 /\ response.kind = "ok"
                 /\ response.children # <<>>
                 /\ response.children[1].created_utc.tag = "missing" )
               => ( /\ posts' = posts
                    /\ pc' = "paginate_return" )
      ]_vars

\* C25 happens: on a page whose second child has no created_utc the call
\* kept the first child and returned, with room left under the limit, pages
\* left and a cursor offered.
C25_Witness ==
    /\ pc = "paginate_return"
    /\ min_date # None
    /\ response.kind = "ok"
    /\ Len(response.children) = 2
    /\ response.children[1].created_utc.tag = "val"
    /\ response.children[2].created_utc.tag = "missing"
    /\ response.after.tag = "val"
    /\ page_requests < max_pages
    /\ Len(posts) = 1
    /\ Len(posts) < limit

\* C26: the transaction type of a post built from a title is WTS, WTB, WTT,
\* ISO or absent, never one of the compound tokens of the list.
C26_NoCompoundTransactionType ==
    \A n \in 1..Len(posts) :
        posts[n].transaction_type \in
            { None, Some(<<"W", "T", "S">>), Some(<<"W", "T", "B">>),
              Some(<<"W", "T", "T">>), Some(<<"I", "S", "O">>) }

\* C26 happens: a title that is a compound token was parsed: "[WTT/WTS]"
\* gave WTS.
C26_Witness ==
    /\ pc = "paginate_return"
    /\ Len(posts) = 1
    /\ posts[1].title = <<"[", "W", "T", "T", "/", "W", "T", "S", "]">>
    /\ posts[1].transaction_type = Some(<<"W", "T", "S">>)

====
